---- MODULE Spec2Model ----
(***************************************************************************)
(* The BBPS proxy's forwarding engine: endpoint resolution                 *)
(* (app/core/config.py), the retrying forwarder (app/services/proxy.py),   *)
(* the structured logger (src/utils/logger.py), the response normalizer    *)
(* (app/api/deps.py) and the rate limiter (app/core/security.py).          *)
(***************************************************************************)
EXTENDS Integers, Sequences, FiniteSets, TLC

(***************************************************************************)
(* Bounds of the model.                                                    *)
(***************************************************************************)
MaxRetriesBound == 3   \* MAX_RETRIES is drawn from 0..MaxRetriesBound
MaxDelay == 2          \* RETRY_DELAY is drawn from 1..MaxDelay
MaxClock == 1          \* network latency may move the clock up to here
MaxKeys == 3           \* raw payloads given to the normalizer hold at most this many keys
MaxLimit == 2          \* limits passed to the rate limiter are drawn from 0..MaxLimit
MaxPeriod == 2         \* periods passed to the rate limiter, in seconds
MaxRlClock == 2        \* the rate limiter's clock runs up to this tick
MaxCalls == 2          \* forward_request is called at most this many times in a row
MaxCreated == 3        \* get_redis_client creates at most this many clients
MaxReloads == 2        \* reload_config is called at most this often

(***************************************************************************)
(* JSON values.  A value is a tag and a text; "absent" marks a key that a  *)
(* dict does not hold.                                                     *)
(***************************************************************************)
J(t, v) == [t |-> t, v |-> v]
Absent == J("absent", "")
JNull == J("null", "null")
JTrue == J("bool", "true")
JFalse == J("bool", "false")
JBool(b) == IF b THEN JTrue ELSE JFalse
JStr(s) == J("str", s)
JNum(s) == J("num", s)
JList(s) == J("list", s)
JObj(s) == J("obj", s)

\* Python truthiness of a JSON value (None, False, 0, "", [] and {} are falsy).
Truthy(x) ==
    CASE x.t = "absent" -> FALSE
      [] x.t = "null" -> FALSE
      [] x.t = "bool" -> x.v = "true"
      [] x.t = "num" -> x.v # "0"
      [] x.t = "str" -> x.v # ""
      [] x.t = "list" -> x.v # "[]"
      [] x.t = "obj" -> x.v # "{}"
      [] OTHER -> TRUE

\* excluded_keys of normalize_response
ReservedKeys == {"success", "message", "request_id", "timestamp", "errors", "error_code", "details"}
OtherKeys == {"data", "billAmount", "raw_response"}
Keys == ReservedKeys \cup OtherKeys

\* A dict over Keys; dict.get, "in", item assignment.
EmptyDict == [k \in Keys |-> Absent]
Has(d, k) == d[k].t # "absent"
Get(d, k, default) == IF Has(d, k) THEN d[k] ELSE default
Put(d, k, v) == [d EXCEPT ![k] = v]
DictKeys(d) == {k \in Keys : Has(d, k)}

(***************************************************************************)
(* Endpoint registry: Settings of app/core/config.py.  A URL or a template *)
(* is a sequence of text tokens; "" is the empty sequence.                 *)
(***************************************************************************)
\* The content of bbps_urls.yaml under bbps_backend_urls: "billers" holds a base
\* URL and two templates, "tplonly" a template and no base URL; no other category
\* is configured.
YamlMapping ==
    [billers |-> [base_url |-> <<"https://b">>, fetch |-> <<"/fetch/", "{id}">>,
                  pair |-> <<"/", "{id}", "/", "{x}">>],
     tplonly |-> [fetch |-> <<"/fetch/", "{id}">>]]

\* The file after an edit: "billers" moved to another host and path, "tplonly"
\* removed.
YamlMappingV2 ==
    [billers |-> [base_url |-> <<"https://b2">>, fetch |-> <<"/v2/", "{id}">>]]

Categories == {"billers", "tplonly", "x"}
EndpointKeys == {"fetch", "y"}

\* str.upper() on the texts of the model
Upper(s) ==
    CASE s = "post" -> "POST"
      [] s = "Put" -> "PUT"
      [] s = "billers" -> "BILLERS"
      [] s = "tplonly" -> "TPLONLY"
      [] s = "x" -> "X"
      [] OTHER -> s

VARIABLES
    yaml_file,       \* what data/bbps_urls.yaml holds on disk
    config_loaded,   \* Settings._bbps_config is not None
    bbps_config,     \* Settings._bbps_config["bbps_backend_urls"]
    environ,         \* os.environ: BBPS_<CATEGORY>_BASE_URL overrides
    max_retries,     \* ProxyForwarder.max_retries
    retry_delay,     \* ProxyForwarder.retry_delay
    clock,           \* the wall clock
    pc,              \* where the forward call is: idle, inflight, sleeping, done
    req,             \* the arguments of the call
    raised,          \* the exception forward_request let escape ("" for none)
    resolved_with,   \* the mapping in memory when the call resolved its URL, and the
                     \* number of reload_config calls before that
    target_url,      \* forward_request's local target_url
    request_id,      \* forward_request's local request_id ("" before log_request)
    start_time,      \* forward_request's local start_time
    attempt,         \* the loop variable
    last_error,      \* forward_request's local last_error
    wake_at,         \* when the backoff sleep ends
    result,          \* the (payload, status) pair returned
    calllog,         \* the log entries the call emitted, in order
    attempt_starts,  \* the clock at the start of each network attempt
    attempt_urls,    \* the URL each network attempt was given
    sleeps,          \* the backoff delays slept, in order
    netcalls,        \* requests that went out on the network
    exchange,        \* the completed HTTP exchange, if any
    n_in,            \* normalize_response's response_data
    n_status,        \* normalize_response's status_code
    n_out,           \* what normalize_response returned
    rate_limit_requests,  \* settings.RATE_LIMIT_REQUESTS
    rate_limit_period,    \* settings.RATE_LIMIT_PERIOD, in seconds
    rl_requests,     \* RateLimiter._requests: key -> list of timestamps
    rl_now,          \* datetime.utcnow().timestamp(), in ticks of 1/TicksPerSecond s
    rl_last,         \* the last is_allowed call: its arguments and what it returned
    rl_admitted,     \* per key, the clock readings of all calls is_allowed admitted
    reloads,         \* the outcomes of the reload_config calls, in order
    default_headers, \* forward_request's local default_headers, after the update
    attempts_sent,   \* the headers and the JSON body each network attempt was given
    issued_ids,      \* the request ids log_request has returned, over all calls
    redis_url,       \* settings.REDIS_URL is set
    redis_client,    \* cache._redis_client: 0 for None, else the handle's number
    connection_pool, \* cache._connection_pool: 0 for None, else the pool's number
    created,         \* how many clients get_redis_client has created
    ops,             \* the cache operations in progress, one per caller
    closer,          \* where close_redis is
    svc_pc,          \* where the pay_bill or recharge call is: idle, attempting, returned
    svc_call,        \* which of the two was called
    transaction_id,  \* the call's local transaction_id
    svc_data,        \* the call's local data: the JSON body
    svc_headers,     \* _make_request's local headers
    svc_attempt,     \* _make_request's loop variable
    svc_attempts,    \* what each attempt sent and what came back, in order
    svc_result       \* the dict the call returned

settings_vars == <<bbps_config, environ, max_retries, retry_delay>>
file_vars == <<yaml_file, config_loaded, reloads>>
call_vars == <<pc, req, raised, resolved_with, target_url, request_id, default_headers, start_time, attempt,
              last_error, wake_at, result>>
hist_vars == <<calllog, attempt_starts, attempt_urls, attempts_sent, issued_ids, sleeps, netcalls, exchange>>
norm_vars == <<n_in, n_status, n_out>>
limiter_vars == <<rate_limit_requests, rate_limit_period, rl_requests, rl_now, rl_last, rl_admitted>>
cache_vars == <<redis_url, redis_client, connection_pool, created, ops, closer>>
service_vars == <<svc_pc, svc_call, transaction_id, svc_data, svc_headers, svc_attempt, svc_attempts,
                 svc_result>>
vars == <<settings_vars, file_vars, clock, call_vars, hist_vars, norm_vars, limiter_vars, cache_vars, service_vars>>

\* dict.get(key, "") on a mapping of the configuration
UrlsGet(urls, key) == IF key \in DOMAIN urls THEN urls[key] ELSE <<>>

\* what yaml.safe_load reads from the file: a mapping, or a YAMLError
YamlFile(urls) == [ok |-> TRUE, urls |-> urls]
Malformed == [ok |-> FALSE, urls |-> <<>>]

\* get_bbps_config: the mapping in memory, read from the file when there is none
get_bbps_config == IF config_loaded THEN bbps_config ELSE yaml_file.urls
\* get_bbps_config raises: nothing in memory and the file does not parse
ConfigLoadFails == ~config_loaded /\ ~yaml_file.ok

get_category_urls(category) ==
    IF category \in DOMAIN get_bbps_config THEN get_bbps_config[category] ELSE <<>>

\* a faulty variant: the configured base URL wins over the override
get_category_base_url_ConfigFirst(category) ==
    LET env_key == "BBPS_" \o Upper(category) \o "_BASE_URL"
        base_url == UrlsGet(get_category_urls(category), "base_url")
    IN  IF base_url # <<>> THEN base_url ELSE UrlsGet(environ, env_key)

get_category_base_url(category) ==
    LET env_key == "BBPS_" \o Upper(category) \o "_BASE_URL"
        env_url == UrlsGet(environ, env_key)
    IN  IF env_url # <<>> THEN env_url
        ELSE UrlsGet(get_category_urls(category), "base_url")

\* str.replace(tok, val) on a token sequence
RECURSIVE Replace(_, _, _)
Replace(s, tok, val) ==
    IF s = <<>> THEN <<>>
    ELSE (IF Head(s) = tok THEN val ELSE <<Head(s)>>) \o Replace(Tail(s), tok, val)

\* the loop over path_params.items(), in the dict's order
RECURSIVE Substitute(_, _)
Substitute(endpoint, path_params) ==
    IF path_params = <<>> THEN endpoint
    ELSE Substitute(Replace(endpoint, "{" \o Head(path_params).key \o "}", Head(path_params).value),
                    Tail(path_params))

get_full_url(category, endpoint_key, path_params) ==
    LET base_url == get_category_base_url(category)
        endpoint == UrlsGet(get_category_urls(category), endpoint_key)
    IN  base_url \o Substitute(endpoint, path_params)

(***************************************************************************)
(* The caller's payload: a dict over PayloadKeys, or None.                 *)
(***************************************************************************)
PayloadKeys == {"amount", "PIN", "card"}
NoPayloadDict == [k \in PayloadKeys |-> Absent]
NonePayload == [given |-> FALSE, data |-> NoPayloadDict]
SomePayload(d) == [given |-> TRUE, data |-> d]
\* "if request_data:": None and {} are falsy
PayloadTruthy(p) == p.given /\ \E k \in PayloadKeys : p.data[k].t # "absent"

\* the caller's headers: a dict of header names to values, or None
NoneHeaders == [given |-> FALSE, d |-> <<>>]
SomeHeaders(d) == [given |-> TRUE, d |-> d]
\* "if headers:": None and {} are falsy
HeadersTruthy(h) == h.given /\ DOMAIN h.d # {}

\* str.lower() on the payload's keys
Lower(s) == CASE s = "PIN" -> "pin" [] OTHER -> s
SensitiveFields == {"password", "pin", "otp", "cvv"}

(***************************************************************************)
(* Structured logger: src/utils/logger.py.                                 *)
(***************************************************************************)
NoLoggedPayload == [present |-> FALSE, data |-> NoPayloadDict]
NoSummary == [present |-> FALSE, success |-> Absent, message |-> Absent]
BaseEntry ==
    [type |-> "", level |-> "info", request_id |-> "", category |-> "", endpoint |-> "",
     method |-> "", status_code |-> 0, error_type |-> "", error |-> Absent,
     payload |-> NoLoggedPayload, summary |-> NoSummary, duration_ms |-> -1]

\* datetime.isoformat() of a clock reading
Iso(now) == "T" \o ToString(now)

\* the request id log_request builds: f"{category}_{utcnow:%Y%m%d%H%M%S%f}"
NewRequestId(category, now) == category \o "_" \o ToString(now)

\* safe_data of log_request
SafeData(d) == [k \in PayloadKeys |-> IF Lower(k) \in SensitiveFields THEN Absent ELSE d[k]]

\* the entry log_request emits
RequestEntry(rid, category, endpoint, method, request_data) ==
    [BaseEntry EXCEPT !.type = "REQUEST", !.request_id = rid, !.category = category,
                      !.endpoint = endpoint, !.method = method,
                      !.payload = IF PayloadTruthy(request_data)
                                    THEN [present |-> TRUE, data |-> SafeData(request_data.data)]
                                    ELSE NoLoggedPayload]

\* the entry log_response emits; response_data and error are Absent for None
ResponseEntry(rid, category, status_code, has_data, response_data, error, duration) ==
    LET base == [BaseEntry EXCEPT !.type = "RESPONSE", !.request_id = rid,
                                  !.category = category, !.status_code = status_code,
                                  !.duration_ms = duration]
    IN  IF Truthy(error)
          THEN [base EXCEPT !.error = error, !.level = "error"]
          ELSE IF has_data /\ DictKeys(response_data) # {}
                 THEN [base EXCEPT !.summary = [present |-> TRUE,
                                                success |-> Get(response_data, "success", JFalse),
                                                message |-> Get(response_data, "message", JStr(""))]]
                 ELSE base

\* the entry log_error emits
ErrorEntry(category, endpoint, err, rid) ==
    [BaseEntry EXCEPT !.type = "ERROR", !.level = "error",
                      !.request_id = IF rid # "" THEN rid ELSE "unknown",
                      !.category = category, !.endpoint = endpoint,
                      !.error_type = err.type, !.error = JStr(err.text)]

\* the line _delay_retry logs before it sleeps
RetryEntry(delay, attempt_no) ==
    [BaseEntry EXCEPT !.type = "RETRY", !.duration_ms = delay, !.status_code = attempt_no]

(***************************************************************************)
(* Forwarder: ProxyForwarder of app/services/proxy.py.                     *)
(***************************************************************************)
NoError == [type |-> "None", text |-> ""]
Err(type, text) == [type |-> type, text |-> text]
\* str(last_error)
StrOfError(e) == IF e = NoError THEN "None" ELSE e.text

NoResult == [payload |-> EmptyDict, status |-> 0]
NoReq == [category |-> "", endpoint_key |-> "", method |-> "", payload |-> NonePayload,
          headers |-> NoneHeaders, path_params |-> <<>>]

\* the default_headers literal
DefaultHeaders(rid, category, now) ==
    [k \in {"Content-Type", "Accept", "X-Request-ID", "X-BBPS-Category", "X-Timestamp"} |->
        CASE k = "X-Request-ID" -> rid
          [] k = "X-BBPS-Category" -> category
          [] k = "X-Timestamp" -> Iso(now)
          [] OTHER -> "application/json"]

\* a faulty variant: the defaults win over the caller's headers
update_DefaultsWin(defaults, headers) == defaults @@ headers.d

\* "if headers: default_headers.update(headers)"
update(defaults, headers) == IF HeadersTruthy(headers) THEN headers.d @@ defaults ELSE defaults

\* what an attempt hands to the HTTP client besides the URL: headers=default_headers, and
\* json=payload for POST and PUT only
Sent(headers, method, payload) ==
    [headers |-> headers,
     json |-> IF Upper(method) \in {"POST", "PUT"} THEN [sent |-> TRUE, payload |-> payload]
              ELSE [sent |-> FALSE, payload |-> NonePayload]]

\* what the backend may answer
ObjBody(d) == [kind |-> "object", obj |-> d, val |-> Absent, text |-> ""]
JsonBody(v) == [kind |-> "json", obj |-> EmptyDict, val |-> v, text |-> ""]
TextBody(s) == [kind |-> "text", obj |-> EmptyDict, val |-> Absent, text |-> s]
NoExchange == [done |-> FALSE, status |-> 0, body |-> TextBody("")]

Verbs == {"GET", "POST", "PUT", "DELETE"}
\* a faulty variant: a chain that also dispatches PATCH
IsSupportedMethod_WithPatch(method) == Upper(method) \in Verbs \cup {"PATCH"}

\* the if/elif chain over method.upper()
IsSupportedMethod(method) == Upper(method) \in Verbs

\* httpx refuses a URL without a scheme before anything is sent
HasScheme(url) == url # <<>> /\ Head(url) \in {"https://b", "https://env"}

\* the payload of the config-miss return
ConfigErrorPayload(category, endpoint_key) ==
    [EmptyDict EXCEPT !["success"] = JFalse,
                      !["message"] = JStr("No URL configured for category '" \o category
                                          \o "' endpoint '" \o endpoint_key \o "'"),
                      !["error_code"] = JStr("CONFIG_ERROR")]
ConfigErrorResult(category, endpoint_key) ==
    [payload |-> ConfigErrorPayload(category, endpoint_key), status |-> 500]

\* the payload of the unsupported-method return
InvalidMethodResult(method) ==
    [payload |-> [EmptyDict EXCEPT !["success"] = JFalse,
                                   !["message"] = JStr("Unsupported HTTP method: " \o method),
                                   !["error_code"] = JStr("INVALID_METHOD")],
     status |-> 400]

\* error_response, built after the loop
ConnectionErrorResult(err, rid, now) ==
    [payload |-> [EmptyDict EXCEPT !["success"] = JFalse,
                                   !["message"] = JStr("Failed to connect to BBPS backend"),
                                   !["error_code"] = JStr("CONNECTION_ERROR"),
                                   !["details"] = JStr(IF err # NoError THEN err.text
                                                       ELSE "Unknown error"),
                                   !["request_id"] = JStr(rid),
                                   !["timestamp"] = JStr(Iso(now))],
     status |-> 503]

\* a faulty variant: "if target_url is None", which an f-string never is
IsConfigMiss_NoneCheck(url) == FALSE

\* "if not target_url"
IsConfigMiss(url) == url = <<>>

\* response.json(), or the raw text wrapped when the body is not JSON
ParsedIsDict(body) == body.kind # "json"
ParsedBody(body) ==
    IF body.kind = "text" THEN [EmptyDict EXCEPT !["raw_response"] = JStr(body.text)]
    ELSE body.obj

\* a faulty variant: the backend's own request_id is kept in the returned payload
ResponseData_BackendId(body, status_code, rid, now) ==
    [ParsedBody(body) EXCEPT !["timestamp"] = JStr(Iso(now)),
                             !["success"] = JBool(status_code >= 200 /\ status_code < 300)]

\* a faulty variant: the backend's own success flag is kept in the returned payload
ResponseData_BackendSuccess(body, status_code, rid, now) ==
    [ParsedBody(body) EXCEPT !["request_id"] = JStr(rid),
                             !["timestamp"] = JStr(Iso(now)),
                             !["success"] = Get(ParsedBody(body), "success",
                                                JBool(status_code >= 200 /\ status_code < 300))]

\* response_data as returned for a completed exchange
ResponseData(body, status_code, rid, now) ==
    [ParsedBody(body) EXCEPT !["request_id"] = JStr(rid),
                             !["timestamp"] = JStr(Iso(now)),
                             !["success"] = JBool(status_code >= 200 /\ status_code < 300)]

\* a faulty variant: the same delay before every retry, no exponential backoff
DelayFor_NoBackoff(k) == retry_delay

\* _delay_retry's delay
DelayFor(k) == retry_delay * (2 ^ k)
\* a faulty variant: the URL is resolved again for every attempt
AttemptUrl_ResolvedAgain(url, r) == get_full_url(r.category, r.endpoint_key, r.path_params)

\* the URL an attempt hands to the HTTP client: the local target_url
AttemptUrl(url, r) == url

\* "if attempt < self.max_retries - 1"
AttemptsRemain(k) == k < max_retries - 1

\* a faulty variant: the loop runs for one more index
LoopEnds_OneMore(k) == k > max_retries

\* "for attempt in range(self.max_retries)" has no index k
LoopEnds(k) == k >= max_retries

\* after the loop: error_response, the final log_response, return 503
Fallthrough(log) ==
    /\ pc' = "done"
    /\ result' = ConnectionErrorResult(last_error', request_id', clock')
    /\ calllog' = Append(log, ResponseEntry(request_id', req'.category, 503, FALSE, EmptyDict,
                                            JStr(StrOfError(last_error')), clock' - start_time'))

\* the top of the for loop and the dispatch of the verb, for loop index k
LoopHead(k, log) ==
    IF LoopEnds(k)
      THEN /\ Fallthrough(log)
           /\ UNCHANGED <<attempt, attempt_starts, attempt_urls, attempts_sent, netcalls>>
      ELSE /\ attempt' = k
           /\ IF IsSupportedMethod(req'.method)
                THEN /\ pc' = "inflight"
                     /\ attempt_starts' = Append(attempt_starts, clock')
                     /\ attempt_urls' = Append(attempt_urls, AttemptUrl(target_url', req'))
                     /\ attempts_sent' = Append(attempts_sent,
                                                Sent(default_headers', req'.method, req'.payload))
                     /\ netcalls' = netcalls + (IF HasScheme(target_url') THEN 1 ELSE 0)
                     /\ calllog' = log
                     /\ UNCHANGED result
                ELSE /\ pc' = "done"
                     /\ result' = InvalidMethodResult(req'.method)
                     /\ calllog' = log
                     /\ UNCHANGED <<attempt_starts, attempt_urls, attempts_sent, netcalls>>

\* forward_request from its entry to its first suspension or return
Forward(category, endpoint_key, method, payload, headers, path_params) ==
    /\ pc = "idle"
    /\ req' = [category |-> category, endpoint_key |-> endpoint_key, method |-> method,
               payload |-> payload, headers |-> headers, path_params |-> path_params]
    /\ UNCHANGED <<environ, max_retries, retry_delay, yaml_file, reloads, limiter_vars, clock,
                   norm_vars, cache_vars, service_vars, last_error, wake_at, sleeps, exchange>>
    /\ IF ConfigLoadFails
         THEN \* get_full_url raises before the try block: the exception escapes
              /\ pc' = "done"
              /\ raised' = "YAMLError"
              /\ resolved_with' = [n |-> Len(reloads), urls |-> <<>>]
              /\ UNCHANGED <<bbps_config, config_loaded, target_url, result, request_id, default_headers, issued_ids,
                             start_time, attempt, calllog, attempt_starts, attempt_urls, attempts_sent, netcalls>>
         ELSE /\ bbps_config' = get_bbps_config
              /\ config_loaded' = TRUE
              /\ resolved_with' = [n |-> Len(reloads), urls |-> get_bbps_config]
              /\ target_url' = get_full_url(category, endpoint_key, path_params)
              /\ UNCHANGED raised
              /\ IF IsConfigMiss(target_url')
                   THEN /\ pc' = "done"
                        /\ result' = ConfigErrorResult(category, endpoint_key)
                        /\ UNCHANGED <<request_id, default_headers, issued_ids, start_time, attempt, calllog, attempt_starts,
                                       attempt_urls, attempts_sent, netcalls>>
                   ELSE /\ request_id' = NewRequestId(category, clock)
                        /\ issued_ids' = Append(issued_ids, request_id')
                        /\ default_headers' = update(DefaultHeaders(request_id', category, clock),
                                                     headers)
                        /\ start_time' = clock
                        /\ LoopHead(0, Append(calllog, RequestEntry(request_id', category,
                                                                    endpoint_key, method, payload)))

\* the except branches for TimeoutException and ConnectError
RetryOrGiveUp(log) ==
    IF AttemptsRemain(attempt)
      THEN /\ pc' = "sleeping"
           /\ wake_at' = clock + DelayFor(attempt)
           /\ sleeps' = Append(sleeps, DelayFor(attempt))
           /\ calllog' = Append(log, RetryEntry(DelayFor(attempt), attempt + 1))
           /\ UNCHANGED result
      ELSE /\ Fallthrough(log)
           /\ UNCHANGED <<wake_at, sleeps>>

\* a faulty variant: any other exception is retried like a timeout
AfterOtherException_Retries(log) == RetryOrGiveUp(log)

\* the "except Exception" branch: break, then the code after the loop
AfterOtherException(log) ==
    /\ Fallthrough(log)
    /\ UNCHANGED <<wake_at, sleeps>>

\* the attempt raises httpx.TimeoutException
AttemptTimesOut(text) ==
    /\ pc = "inflight"
    /\ HasScheme(target_url)
    /\ last_error' = Err("TimeoutException", text)
    /\ UNCHANGED <<settings_vars, file_vars, limiter_vars, clock, norm_vars, cache_vars, service_vars, req,
                   raised, resolved_with, target_url, request_id, default_headers, issued_ids, start_time,
                   attempt, attempt_starts, attempt_urls, attempts_sent, netcalls, exchange>>
    /\ RetryOrGiveUp(Append(calllog, ErrorEntry(req.category, req.endpoint_key, last_error',
                                                request_id)))

\* the attempt raises httpx.ConnectError
AttemptConnectFails(text) ==
    /\ pc = "inflight"
    /\ HasScheme(target_url)
    /\ last_error' = Err("ConnectError", text)
    /\ UNCHANGED <<settings_vars, file_vars, limiter_vars, clock, norm_vars, cache_vars, service_vars, req,
                   raised, resolved_with, target_url, request_id, default_headers, issued_ids, start_time,
                   attempt, attempt_starts, attempt_urls, attempts_sent, netcalls, exchange>>
    /\ RetryOrGiveUp(Append(calllog, ErrorEntry(req.category, req.endpoint_key, last_error',
                                                request_id)))

\* the attempt raises anything else: log it and break
AttemptRaisesOther(text) ==
    /\ pc = "inflight"
    /\ last_error' = IF HasScheme(target_url) THEN Err("ReadError", text)
                     ELSE Err("UnsupportedProtocol", "Request URL is missing a protocol")
    /\ UNCHANGED <<settings_vars, file_vars, limiter_vars, clock, norm_vars, cache_vars, service_vars, req,
                   raised, resolved_with, target_url, request_id, default_headers, issued_ids, start_time,
                   attempt, attempt_starts, attempt_urls, attempts_sent, netcalls, exchange>>
    /\ AfterOtherException(Append(calllog, ErrorEntry(req.category, req.endpoint_key,
                                                      last_error', request_id)))

\* the HTTP exchange completes with a status and a body
AttemptResponds(status_code, body) ==
    /\ pc = "inflight"
    /\ HasScheme(target_url)
    /\ exchange' = [done |-> TRUE, status |-> status_code, body |-> body]
    /\ UNCHANGED <<settings_vars, file_vars, limiter_vars, clock, norm_vars, cache_vars, service_vars, req,
                   raised, resolved_with, target_url, request_id, default_headers, issued_ids, start_time,
                   attempt, attempt_starts, attempt_urls, attempts_sent, netcalls>>
    /\ IF ParsedIsDict(body)
         THEN /\ pc' = "done"
              /\ result' = [payload |-> ResponseData(body, status_code, request_id, clock),
                            status |-> status_code]
              /\ calllog' = Append(calllog,
                                   ResponseEntry(request_id, req.category, status_code, TRUE,
                                                 result'.payload, Absent, clock - start_time))
              /\ UNCHANGED <<last_error, wake_at, sleeps>>
         ELSE \* item assignment on a list, number, string or None: TypeError, caught by
              \* "except Exception"
              /\ last_error' = Err("TypeError", "object does not support item assignment")
              /\ AfterOtherException(Append(calllog, ErrorEntry(req.category, req.endpoint_key,
                                                                last_error', request_id)))

\* asyncio.sleep returns and the loop goes on with the next attempt
WakeUp ==
    /\ pc = "sleeping"
    /\ clock' = IF clock < wake_at THEN wake_at ELSE clock
    /\ UNCHANGED <<settings_vars, file_vars, limiter_vars, norm_vars, cache_vars, service_vars, req,
                   raised, resolved_with, target_url, request_id, default_headers, issued_ids, start_time,
                   last_error, wake_at, sleeps, exchange>>
    /\ LoopHead(attempt + 1, calllog)

\* time passes while a request is in flight
Tick ==
    /\ pc = "inflight"
    /\ clock < MaxClock
    /\ clock' = clock + 1
    /\ UNCHANGED <<settings_vars, file_vars, limiter_vars, norm_vars, cache_vars, service_vars, call_vars, hist_vars>>

\* forward_request has returned (or raised) and the next call may come in: its locals
\* are gone, the ids log_request has handed out remain
Return ==
    /\ pc = "done"
    /\ Len(issued_ids) < MaxCalls
    /\ pc' = "idle"
    /\ req' = NoReq
    /\ raised' = ""
    /\ target_url' = <<>>
    /\ request_id' = ""
    /\ default_headers' = <<>>
    /\ start_time' = 0
    /\ attempt' = 0
    /\ last_error' = NoError
    /\ wake_at' = 0
    /\ result' = NoResult
    /\ calllog' = <<>>
    /\ attempt_starts' = <<>>
    /\ attempt_urls' = <<>>
    /\ attempts_sent' = <<>>
    /\ sleeps' = <<>>
    /\ netcalls' = 0
    /\ exchange' = NoExchange
    /\ UNCHANGED <<settings_vars, file_vars, limiter_vars, clock, norm_vars, cache_vars, service_vars,
                   resolved_with, issued_ids>>

\* reload_config: drop the mapping in memory, then read the file again
reload_config ==
    IF yaml_file.ok THEN [loaded |-> TRUE, urls |-> yaml_file.urls]
    ELSE [loaded |-> FALSE, urls |-> <<>>]

\* POST /config/reload: 200, or 500 when reload_config raised
Reload ==
    /\ Len(reloads) < MaxReloads
    /\ config_loaded' = reload_config.loaded
    /\ bbps_config' = reload_config.urls
    /\ reloads' = Append(reloads, [status |-> IF reload_config.loaded THEN 200 ELSE 500,
                                   urls |-> reload_config.urls])
    /\ UNCHANGED <<environ, max_retries, retry_delay, yaml_file, limiter_vars, clock, call_vars,
                   hist_vars, norm_vars, cache_vars, service_vars>>

\* an operator edits data/bbps_urls.yaml
EditFile(content) ==
    /\ yaml_file # content
    /\ yaml_file' = content
    /\ UNCHANGED <<settings_vars, config_loaded, reloads, limiter_vars, clock, call_vars,
                   hist_vars, norm_vars, cache_vars, service_vars>>

(***************************************************************************)
(* Response normalizer: normalize_response of app/api/deps.py, and the     *)
(* BBPSResponse model of app/schemas/responses.py that it constructs.      *)
(***************************************************************************)
NoData == [t |-> "null", v |-> "null", items |-> EmptyDict]
\* a JSON value as the envelope's data
DataOf(j) == [t |-> j.t, v |-> j.v, items |-> EmptyDict]
\* a dict as the envelope's data
DataDict(d) == [t |-> "dict", v |-> "", items |-> d]

NoErrors == [kind |-> "null", raw |-> Absent, code |-> Absent, message |-> Absent]
\* the backend's errors list passed through
RawErrors(l) == [kind |-> "raw", raw |-> l, code |-> Absent, message |-> Absent]
\* error_details: one synthesized {code, message}
SynthErrors(code, message) == [kind |-> "synth", raw |-> Absent, code |-> code, message |-> message]

\* "status_code >= 200 and status_code < 300"
StatusOk(status_code) == status_code >= 200 /\ status_code < 300

\* pydantic's validation of a bool field: bools, 0 and 1, and the words it reads as bools
BoolWordsTrue == {"true", "yes", "on", "1", "t", "y"}
BoolWordsFalse == {"false", "no", "off", "0", "f", "n"}
ValidBool(x) ==
    \/ x.t = "bool"
    \/ x.t = "num" /\ x.v \in {"0", "1"}
    \/ x.t = "str" /\ x.v \in BoolWordsTrue \cup BoolWordsFalse
CoerceBool(x) ==
    \/ x.t = "bool" /\ x.v = "true"
    \/ x.t = "num" /\ x.v = "1"
    \/ x.t = "str" /\ x.v \in BoolWordsTrue
\* a str field takes a string only; an Optional[str] field also None
ValidStr(x) == x.t = "str"
ValidOptStr(x) == x.t \in {"str", "null"}
\* Optional[List[Dict[str, str]]]: every item a dict of strings
\* the text of a list holding one {code, message} dict of strings
ErrorsText(code, message) == "[{code:" \o code \o ",message:" \o message \o "}]"
\* the code and message strings such a list holds in the payloads explored
StrCodes == {"CONNECTION_ERROR", "CONFIG_ERROR", "E42", "ERROR", "UNKNOWN_ERROR"}
StrMessages ==
    {"", "boom", "why", "An error occurred"}
        \cup {"Request failed with status code " \o ToString(s) : s \in {200, 404, 500}}
ListOfStrDicts(l) ==
    /\ l.t = "list"
    /\ l.v \in {"[]", "[{code,message}]"} \cup {ErrorsText(c, m) : c \in StrCodes, m \in StrMessages}
ValidErrors(e) ==
    \/ e.kind = "null"
    \/ e.kind = "raw" /\ ListOfStrDicts(e.raw)
    \/ e.kind = "synth" /\ e.code.t = "str" /\ e.message.t = "str"

NoEnvelope ==
    [called |-> FALSE, raised |-> FALSE, success |-> FALSE, message |-> Absent, data |-> NoData,
     request_id |-> Absent, timestamp |-> Absent, errors |-> NoErrors]

\* BBPSResponse(...): the envelope, or a ValidationError
BBPSResponse(success, message, data, rid, timestamp, errors) ==
    IF /\ ValidBool(success)
       /\ ValidStr(message)
       /\ ValidOptStr(rid)
       /\ ValidStr(timestamp)
       /\ ValidErrors(errors)
      THEN [called |-> TRUE, raised |-> FALSE, success |-> CoerceBool(success),
            message |-> message, data |-> data, request_id |-> rid,
            timestamp |-> timestamp, errors |-> errors]
      ELSE [NoEnvelope EXCEPT !.called = TRUE, !.raised = TRUE]

\* the default message chosen when the payload's message is falsy
DefaultMessage(response_data, success) ==
    IF Truthy(success) THEN JStr("Request processed successfully")
    ELSE IF Get(response_data, "error_code", JNull) = JStr("CONNECTION_ERROR")
           THEN JStr("Failed to connect to BBPS backend")
    ELSE IF Get(response_data, "error_code", JNull) = JStr("CONFIG_ERROR")
           THEN JStr("Configuration error")
    ELSE JStr("Request failed")

\* a faulty variant: the "data" key is wrapped like any other key that is not reserved
ExtractData_AlwaysWraps(response_data) ==
    LET remaining_data == [k \in Keys |-> IF k \in ReservedKeys THEN Absent
                                          ELSE response_data[k]]
    IN  IF DictKeys(remaining_data) # {} THEN DataDict(remaining_data) ELSE NoData

\* data: the "data" key's value, else the keys that are not reserved, else None
ExtractData(response_data) ==
    IF Has(response_data, "data") THEN DataOf(response_data["data"])
    ELSE LET remaining_data == [k \in Keys |-> IF k \in ReservedKeys THEN Absent
                                               ELSE response_data[k]]
         IN  IF DictKeys(remaining_data) # {} THEN DataDict(remaining_data) ELSE NoData

\* errors, when success is falsy
ExtractErrors(response_data, status_code) ==
    LET backend_errors == Get(response_data, "errors", JNull)
    IN  IF Truthy(backend_errors) /\ backend_errors.t = "list" THEN RawErrors(backend_errors)
        ELSE IF Truthy(Get(response_data, "error_code", JNull))
               THEN SynthErrors(Get(response_data, "error_code", JStr("UNKNOWN")),
                                IF Truthy(Get(response_data, "details", JNull))
                                  THEN response_data["details"]
                                  ELSE Get(response_data, "message", JStr("An error occurred")))
        ELSE IF Truthy(Get(response_data, "message", JNull))
               THEN SynthErrors(JStr("ERROR"),
                                Get(response_data, "message", JStr("An error occurred")))
        ELSE SynthErrors(JStr("UNKNOWN_ERROR"),
                         JStr("Request failed with status code " \o ToString(status_code)))

\* a faulty variant: errors are extracted whatever success is
normalize_response_ErrorsAlways(response_data, status_code, now) ==
    LET success == Get(response_data, "success", JBool(StatusOk(status_code)))
        message0 == Get(response_data, "message", JStr(""))
        message == IF ~Truthy(message0) THEN DefaultMessage(response_data, success)
                   ELSE message0
    IN  BBPSResponse(success, message, ExtractData(response_data),
                     Get(response_data, "request_id", JNull),
                     Get(response_data, "timestamp", JStr(Iso(now))),
                     ExtractErrors(response_data, status_code))

normalize_response(response_data, status_code, now) ==
    LET success == Get(response_data, "success", JBool(StatusOk(status_code)))
        message0 == Get(response_data, "message", JStr(""))
        message == IF ~Truthy(message0) THEN DefaultMessage(response_data, success)
                   ELSE message0
        data == ExtractData(response_data)
        errors == IF ~Truthy(success) THEN ExtractErrors(response_data, status_code)
                  ELSE NoErrors
    IN  BBPSResponse(success, message, data, Get(response_data, "request_id", JNull),
                     Get(response_data, "timestamp", JStr(Iso(now))), errors)

\* the envelope's data field as a JSON value
DataAsJson(data) ==
    IF data.t = "dict" THEN JObj(ToString(data.items)) ELSE J(data.t, data.v)

\* the envelope's errors field as a JSON value
ErrorsAsJson(errors) ==
    CASE errors.kind = "null" -> JNull
      [] errors.kind = "raw" -> errors.raw
      [] OTHER -> JList(ErrorsText(errors.code.v, errors.message.v))

\* the six fields of a returned envelope as a dict
EnvelopeFields(envelope) ==
    [k \in Keys |->
        CASE k = "success" -> JBool(envelope.success)
          [] k = "message" -> envelope.message
          [] k = "data" -> DataAsJson(envelope.data)
          [] k = "request_id" -> envelope.request_id
          [] k = "timestamp" -> envelope.timestamp
          [] k = "errors" -> ErrorsAsJson(envelope.errors)
          [] OTHER -> Absent]

\* a route handler hands a raw payload and a status to normalize_response
Normalize ==
    /\ ~n_out.called
    /\ n_out' = normalize_response(n_in, n_status, clock)
    /\ UNCHANGED <<settings_vars, file_vars, limiter_vars, clock, call_vars, hist_vars, n_in, n_status, cache_vars, service_vars>>

\* a route handler hands what forward returned to normalize_response
NormalizeResult ==
    /\ pc = "done"
    /\ raised = ""
    /\ ~n_out.called
    /\ n_out' = normalize_response(result.payload, result.status, clock)
    /\ UNCHANGED <<settings_vars, file_vars, limiter_vars, clock, call_vars, hist_vars, n_in, n_status, cache_vars, service_vars>>

(***************************************************************************)
(* Cache: get_redis_client, close_redis and CacheService of app/core/cache.py. *)
(* Every await is a point where the other coroutines may run.              *)
(***************************************************************************)
noncache_vars == <<settings_vars, file_vars, clock, call_vars, hist_vars, norm_vars, limiter_vars, service_vars>>

\* the coroutines that call the cache, and the operations they call
Callers == {"h1", "h2"}
CacheOps == {"get", "set", "delete", "incr", "expire"}

NoOp == [name |-> "none", stage |-> "idle", client |-> 0, no_client |-> FALSE,
         failed |-> FALSE, result |-> Absent, exc |-> ""]

\* what each operation returns when there is no client or the store call raised
Miss(name) == IF name \in {"get", "incr"} THEN JNull ELSE JFalse

\* what the store may answer, and what the operation returns for the answer
StoreAnswers(name) ==
    CASE name = "get" -> {"absent", "json", "garbage"}
      [] name = "expire" -> {"1", "0"}
      [] OTHER -> {"ok"}
Returned(name, answer) ==
    CASE name = "get" -> IF answer = "json" THEN JStr("v") ELSE JNull
      [] name = "incr" -> JNum("1")
      [] name = "expire" -> JBool(answer = "1")
      [] OTHER -> JTrue

\* the exceptions a store call or json.loads may raise
StoreExceptions == {"ConnectionError", "TimeoutError", "ResponseError"}
\* a faulty variant: only the store's own errors are caught
Caught_RedisErrorOnly(exc) == exc \in StoreExceptions

\* "except Exception": every one of them is an Exception
Caught(exc) == exc \in StoreExceptions \cup {"JSONDecodeError"}

\* a faulty variant: a new client for every operation
NeedsConnection_Always == TRUE

\* "if _redis_client is None"
NeedsConnection == redis_client = 0

\* the operation returns value v, or exception exc reaches its except clause
Finish(op, v) == [op EXCEPT !.stage = "returned", !.result = v]
Raise(op, exc) ==
    IF Caught(exc) THEN [op EXCEPT !.stage = "returned", !.failed = TRUE, !.result = Miss(op.name)]
    ELSE [op EXCEPT !.stage = "raised", !.failed = TRUE, !.exc = exc]

\* get_redis_client returned handle h to the operation: None ends it with a miss,
\* a client is given the store call
WithClient(op, h) ==
    IF h = 0 THEN Finish([op EXCEPT !.no_client = TRUE], Miss(op.name))
    ELSE [op EXCEPT !.stage = "operating", !.client = h]

\* a cache operation up to its first await
CacheCall(caller, name) ==
    /\ ops[caller].stage = "idle"
    /\ LET op == [NoOp EXCEPT !.name = name]
       IN  IF ~redis_url
             THEN /\ ops' = [ops EXCEPT ![caller] = WithClient(op, 0)]
                  /\ UNCHANGED <<redis_client, connection_pool, created>>
             ELSE IF NeedsConnection
                    THEN /\ created < MaxCreated
                         /\ created' = created + 1
                         /\ connection_pool' = created'
                         /\ redis_client' = created'
                         /\ ops' = [ops EXCEPT ![caller] = [op EXCEPT !.stage = "pinging",
                                                                      !.client = created']]
                    ELSE /\ ops' = [ops EXCEPT ![caller] = WithClient(op, redis_client)]
                         /\ UNCHANGED <<redis_client, connection_pool, created>>
    /\ UNCHANGED <<noncache_vars, redis_url, closer>>

\* ping() returns or raises
PingDone(caller, ok) ==
    /\ ops[caller].stage = "pinging"
    /\ redis_client' = IF ok THEN redis_client ELSE 0
    /\ ops' = [ops EXCEPT ![caller] =
                  WithClient([ops[caller] EXCEPT !.failed = ~ok], redis_client')]
    /\ UNCHANGED <<noncache_vars, redis_url, connection_pool, created, closer>>

\* the store answers the operation's command
StoreAnswer(caller, answer) ==
    /\ ops[caller].stage = "operating"
    /\ answer \in StoreAnswers(ops[caller].name)
    /\ ops' = [ops EXCEPT ![caller] =
                  IF answer = "garbage" THEN Raise(ops[caller], "JSONDecodeError")
                  ELSE Finish(ops[caller], Returned(ops[caller].name, answer))]
    /\ UNCHANGED <<noncache_vars, redis_url, redis_client, connection_pool, created, closer>>

\* the store call raises
StoreRaises(caller, exc) ==
    /\ ops[caller].stage = "operating"
    /\ ops' = [ops EXCEPT ![caller] = Raise(ops[caller], exc)]
    /\ UNCHANGED <<noncache_vars, redis_url, redis_client, connection_pool, created, closer>>

\* the caller goes on with the value the operation returned
CacheReturn(caller) ==
    /\ ops[caller].stage = "returned"
    /\ ops' = [ops EXCEPT ![caller] = NoOp]
    /\ UNCHANGED <<noncache_vars, redis_url, redis_client, connection_pool, created, closer>>

\* close_redis up to its first await
CloseRedis ==
    /\ closer \in {"idle", "closed"}
    /\ closer' = IF redis_client # 0 THEN "closing_client"
                 ELSE IF connection_pool # 0 THEN "disconnecting"
                 ELSE "closed"
    /\ UNCHANGED <<noncache_vars, redis_url, redis_client, connection_pool, created, ops>>

\* _redis_client.close() returns
ClientClosed ==
    /\ closer = "closing_client"
    /\ redis_client' = 0
    /\ closer' = IF connection_pool # 0 THEN "disconnecting" ELSE "closed"
    /\ UNCHANGED <<noncache_vars, redis_url, connection_pool, created, ops>>

\* _connection_pool.disconnect() returns
PoolDisconnected ==
    /\ closer = "disconnecting"
    /\ connection_pool' = 0
    /\ closer' = "closed"
    /\ UNCHANGED <<noncache_vars, redis_url, redis_client, created, ops>>

(***************************************************************************)
(* Inputs of the model.                                                    *)
(***************************************************************************)
Methods == {"GET", "post", "Put", "DELETE", "PATCH"}
Payloads == {NonePayload,
             SomePayload([k \in PayloadKeys |-> IF k = "PIN" THEN JStr("1234") ELSE JNum("120")])}
PathParams == {<<>>, <<[key |-> "id", value |-> <<"7">>]>>}
\* str() of the exception an attempt raises; httpx's timeouts often carry no message
TimeoutTexts == {"", "timed out"}
ConnectTexts == {"All connection attempts failed"}
OtherTexts == {"Server disconnected without sending a response"}
Statuses == {199, 200, 299, 300, 500}
Bodies ==
    {ObjBody(EmptyDict),
     ObjBody([EmptyDict EXCEPT !["message"] = JStr("boom")]),
     ObjBody([EmptyDict EXCEPT !["success"] = JTrue, !["data"] = JObj("{a:1}")]),
     ObjBody([EmptyDict EXCEPT !["success"] = JFalse, !["request_id"] = JStr("backend-id"),
                               !["timestamp"] = JStr("backend-time")]),
     ObjBody([EmptyDict EXCEPT !["message"] = JObj("{text:boom}")]),
     ObjBody([EmptyDict EXCEPT !["billAmount"] = JNum("120")]),
     JsonBody(JList("[1,2]")),
     JsonBody(JNull),
     TextBody("<html>")}

\* the values a raw payload may hold under each key
ValuesFor(k) ==
    CASE k = "success" -> {JTrue, JFalse, JNull, JStr("yes")}
      [] k = "message" -> {JStr(""), JStr("boom"), JObj("{text:boom}")}
      [] k = "data" -> {JNull, JObj("{a:1}")}
      [] k = "errors" -> {JList("[]"), JList("[{code,message}]"), JList("[x]")}
      [] k = "error_code" -> {JStr("CONNECTION_ERROR"), JStr("CONFIG_ERROR"), JStr("E42"), JNum("42")}
      [] k = "details" -> {JStr(""), JStr("why")}
      [] k = "request_id" -> {JStr("rid"), JNum("7")}
      [] k = "timestamp" -> {JStr("ts"), JNull}
      [] k = "billAmount" -> {JNum("120")}
      [] OTHER -> {JStr("<html>")}

\* the dicts over the keys ks that hold at most n keys
RECURSIVE DictsOver(_, _)
DictsOver(ks, n) ==
    IF ks = {} \/ n = 0 THEN {EmptyDict}
    ELSE LET k == CHOOSE x \in ks : TRUE
         IN  DictsOver(ks \ {k}, n)
               \cup {Put(d, k, v) : d \in DictsOver(ks \ {k}, n - 1), v \in ValuesFor(k)}
RawPayloads == DictsOver(Keys, MaxKeys)
NormStatuses == {200, 404, 500}

DefaultMaxRetries == 3
DefaultRetryDelay == 1

(***************************************************************************)
(* Rate limiter: RateLimiter of app/core/security.py and the dependency    *)
(* check_rate_limit of app/api/deps.py.  Timestamps are floats in the      *)
(* code; here they count ticks of 1/TicksPerSecond seconds.                *)
(***************************************************************************)
TicksPerSecond == 2

\* an optional int argument: a number, or None
Arg(n) == [given |-> TRUE, v |-> n]
NoneArg == [given |-> FALSE, v |-> 0]
\* "x or default": None and 0 are falsy
OrDefault(x, default) == IF x.given /\ x.v # 0 THEN x.v ELSE default

\* key = f"rate:{client_id}"
RateKey(client_id) == "rate:" \o client_id

\* self._requests[key], [] for a key the dict does not hold yet
RequestsOf(key) == IF key \in DOMAIN rl_requests THEN rl_requests[key] ELSE <<>>

\* the clock readings of the calls admitted under a key so far
AdmittedOf(key) == IF key \in DOMAIN rl_admitted THEN rl_admitted[key] ELSE <<>>

\* [ts for ts in self._requests[key] if now - ts < period]
Recent(list, now, period) ==
    SelectSeq(list, LAMBDA ts : now - ts < period * TicksPerSecond)

\* int(period - (now - oldest)): the remaining seconds, truncated
Remaining(period, now, oldest) ==
    (period * TicksPerSecond - (now - oldest)) \div TicksPerSecond

\* a faulty variant: one request more than the limit is let through
OverLimit_OneMore(count, limit) == count > limit

\* len(self._requests[key]) >= limit
OverLimit(count, limit) == count >= limit

\* a faulty variant: a rejected request is recorded too
is_allowed_CountsRejected(client_id, limit_arg, period_arg, now) ==
    LET limit == OrDefault(limit_arg, rate_limit_requests)
        period == OrDefault(period_arg, rate_limit_period)
        kept == Recent(RequestsOf(RateKey(client_id)), now, period)
    IN  [allowed |-> ~OverLimit(Len(kept), limit),
         retry_after |-> IF OverLimit(Len(kept), limit) THEN Remaining(period, now, kept[1]) ELSE 0,
         list |-> Append(kept, now), limit |-> limit, period |-> period]

\* is_allowed: the pair it returns and the list it leaves under the key
is_allowed(client_id, limit_arg, period_arg, now) ==
    LET limit == OrDefault(limit_arg, rate_limit_requests)
        period == OrDefault(period_arg, rate_limit_period)
        kept == Recent(RequestsOf(RateKey(client_id)), now, period)
    IN  IF OverLimit(Len(kept), limit)
          THEN [allowed |-> FALSE, retry_after |-> Remaining(period, now, kept[1]),
                list |-> kept, limit |-> limit, period |-> period]
          ELSE [allowed |-> TRUE, retry_after |-> 0,
                list |-> Append(kept, now), limit |-> limit, period |-> period]

NoLimiterCall ==
    [called |-> FALSE, client_id |-> "", limit_arg |-> NoneArg, period_arg |-> NoneArg,
     limit |-> 0, period |-> 0, now |-> 0, before |-> <<>>, after |-> <<>>,
     allowed |-> FALSE, retry_after |-> 0, status |-> 0]

\* a call of rate_limiter.is_allowed(client_id, limit, period)
IsAllowed(client_id, limit_arg, period_arg) ==
    LET r == is_allowed(client_id, limit_arg, period_arg, rl_now)
    IN  /\ rl_requests' = (RateKey(client_id) :> r.list) @@ rl_requests
        /\ rl_last' = [called |-> TRUE, client_id |-> client_id, limit_arg |-> limit_arg,
                       period_arg |-> period_arg, limit |-> r.limit, period |-> r.period,
                       now |-> rl_now, before |-> RequestsOf(RateKey(client_id)),
                       after |-> r.list, allowed |-> r.allowed,
                       retry_after |-> r.retry_after, status |-> 0]
        /\ UNCHANGED <<settings_vars, file_vars, clock, call_vars, hist_vars, norm_vars, cache_vars, service_vars,
                       rate_limit_requests, rate_limit_period, rl_now>>
        /\ rl_admitted' = IF r.allowed
                            THEN (RateKey(client_id) :> Append(AdmittedOf(RateKey(client_id)), rl_now))
                                   @@ rl_admitted
                            ELSE rl_admitted

\* the dependency check_rate_limit(client): 429 with Retry-After when not allowed
CheckRateLimit(client_id, rate_limit) ==
    LET r == is_allowed(client_id, Arg(rate_limit), NoneArg, rl_now)
    IN  /\ rl_requests' = (RateKey(client_id) :> r.list) @@ rl_requests
        /\ rl_last' = [called |-> TRUE, client_id |-> client_id, limit_arg |-> Arg(rate_limit),
                       period_arg |-> NoneArg, limit |-> r.limit, period |-> r.period,
                       now |-> rl_now, before |-> RequestsOf(RateKey(client_id)),
                       after |-> r.list, allowed |-> r.allowed,
                       retry_after |-> r.retry_after,
                       status |-> IF r.allowed THEN 200 ELSE 429]
        /\ UNCHANGED <<settings_vars, file_vars, clock, call_vars, hist_vars, norm_vars, cache_vars, service_vars,
                       rate_limit_requests, rate_limit_period, rl_now>>
        /\ rl_admitted' = IF r.allowed
                            THEN (RateKey(client_id) :> Append(AdmittedOf(RateKey(client_id)), rl_now))
                                   @@ rl_admitted
                            ELSE rl_admitted

\* the wall clock of the limiter advances by one tick
RlTick ==
    /\ rl_now < MaxRlClock
    /\ rl_now' = rl_now + 1
    /\ UNCHANGED <<settings_vars, file_vars, clock, call_vars, hist_vars, norm_vars, cache_vars, service_vars,
                   rate_limit_requests, rate_limit_period, rl_requests, rl_last, rl_admitted>>

Clients == {"a", "b"}
LimitArgs == {NoneArg} \cup {Arg(n) : n \in 0..MaxLimit}
PeriodArgs == {NoneArg} \cup {Arg(n) : n \in 0..MaxPeriod}

(***************************************************************************)
(* BBPSAPIService of app/services/bbps_api_service_async.py: pay_bill and  *)
(* recharge, and the retry loop of _make_request under them.  The service  *)
(* takes max_retries from settings.MAX_RETRIES as the forwarder does.      *)
(***************************************************************************)
nonservice_vars == <<settings_vars, file_vars, clock, call_vars, hist_vars, norm_vars, limiter_vars,
                    cache_vars>>

\* token_hex's draws
RandomParts == {"A1", "B2"}
\* generate_transaction_id and generate_reference_id: prefix, date, random part
generate_transaction_id(prefix, random_part) == prefix \o "20260101000000" \o random_part
generate_reference_id(prefix, random_part) == prefix \o "20260101" \o random_part

\* the two calls and the prefix each gives its transaction id
ServiceCalls == {"pay_bill", "recharge"}
PrefixOf(name) == IF name = "pay_bill" THEN "PAY" ELSE "RCH"

\* what an attempt meets: a response with a status and a body that is JSON or not, an
\* httpx.RequestError, or any other exception
Response(status, json) == [kind |-> "response", status |-> status, json |-> json]
Failure(kind) == [kind |-> kind, status |-> 0, json |-> FALSE]
ServiceAnswers ==
    {Response(st, j) : st \in {200, 204, 500}, j \in BOOLEAN}
        \cup {Failure("RequestError"), Failure("Exception")}

NoServiceResult ==
    [returned |-> FALSE, success |-> FALSE, status_code |-> 0, error |-> "", transaction_id |-> ""]
ServiceResult(success, status_code, error) ==
    [returned |-> TRUE, success |-> success, status_code |-> status_code, error |-> error,
     transaction_id |-> ""]

\* response.raise_for_status() passes
Is2xx(status) == status >= 200 /\ status < 300

\* response.json() decodes the body
Decodes(answer) == answer.json

\* one pass of the loop body: the dict it returns, or NoServiceResult when the loop goes on
AttemptReturns(answer, k, retries) ==
    LET last == k = retries - 1
    IN  IF answer.kind = "response" /\ Is2xx(answer.status) /\ Decodes(answer)
          THEN ServiceResult(TRUE, answer.status, "")
        ELSE IF ~last THEN NoServiceResult
        ELSE IF answer.kind = "response" /\ ~Is2xx(answer.status)
          THEN ServiceResult(FALSE, answer.status, "HTTPStatusError")
        ELSE IF answer.kind = "RequestError" THEN ServiceResult(FALSE, 503, "RequestError")
        ELSE ServiceResult(FALSE, 500, "Exception")

\* pay_bill and recharge set result["transaction_id"] on what _make_request returned
WithTransactionId(res, tid) == [res EXCEPT !.transaction_id = tid]

\* pay_bill or recharge is called: the transaction id, the body and the headers are built
ServiceCall(name, tid_random, rid_random) ==
    /\ svc_pc = "idle"
    /\ svc_pc' = "attempting"
    /\ svc_call' = name
    /\ transaction_id' = generate_transaction_id(PrefixOf(name), tid_random)
    /\ svc_data' = [transactionId |-> transaction_id']
    /\ svc_headers' = [X_Request_ID |-> generate_reference_id("REQ", rid_random)]
    /\ svc_attempt' = 0
    /\ UNCHANGED <<nonservice_vars, svc_attempts, svc_result>>

\* one attempt: the POST goes out with headers and data, and its outcome is handled
ServiceAttempt(answer) ==
    /\ svc_pc = "attempting"
    /\ svc_attempt < max_retries
    /\ svc_attempts' = Append(svc_attempts,
                              [transactionId |-> svc_data.transactionId,
                               X_Request_ID |-> svc_headers.X_Request_ID,
                               answer |-> answer])
    /\ LET res == AttemptReturns(answer, svc_attempt, max_retries)
       IN  IF res.returned
             THEN /\ svc_result' = WithTransactionId(res, transaction_id)
                  /\ svc_pc' = "returned"
                  /\ UNCHANGED svc_attempt
             ELSE /\ svc_attempt' = svc_attempt + 1
                  /\ UNCHANGED <<svc_result, svc_pc>>
    /\ UNCHANGED <<nonservice_vars, svc_call, transaction_id, svc_data, svc_headers>>

\* the loop ends without a return: "Max retries exceeded"
ServiceLoopEnds ==
    /\ svc_pc = "attempting"
    /\ ~(svc_attempt < max_retries)
    /\ svc_result' = WithTransactionId(ServiceResult(FALSE, 503, "Max retries exceeded"),
                                       transaction_id)
    /\ svc_pc' = "returned"
    /\ UNCHANGED <<nonservice_vars, svc_call, transaction_id, svc_data, svc_headers, svc_attempt,
                   svc_attempts>>

(***************************************************************************)
(* Specifications.                                                         *)
(***************************************************************************)
InitCall ==
    /\ yaml_file = YamlFile(YamlMapping)
    /\ config_loaded = FALSE
    /\ bbps_config = <<>>
    /\ reloads = <<>>
    /\ raised = ""
    /\ resolved_with = [n |-> 0, urls |-> <<>>]
    /\ attempt_urls = <<>>
    /\ attempts_sent = <<>>
    /\ issued_ids = <<>>
    /\ default_headers = <<>>
    /\ redis_client = 0
    /\ connection_pool = 0
    /\ created = 0
    /\ ops = [c \in Callers |-> NoOp]
    /\ closer = "idle"
    /\ svc_pc = "idle"
    /\ svc_call = ""
    /\ transaction_id = ""
    /\ svc_data = [transactionId |-> ""]
    /\ svc_headers = [X_Request_ID |-> ""]
    /\ svc_attempt = 0
    /\ svc_attempts = <<>>
    /\ svc_result = NoServiceResult
    /\ clock = 0
    /\ pc = "idle"
    /\ req = NoReq
    /\ target_url = <<>>
    /\ request_id = ""
    /\ start_time = 0
    /\ attempt = 0
    /\ last_error = NoError
    /\ wake_at = 0
    /\ result = NoResult
    /\ calllog = <<>>
    /\ attempt_starts = <<>>
    /\ sleeps = <<>>
    /\ netcalls = 0
    /\ exchange = NoExchange
    /\ rl_requests = <<>>
    /\ rl_now = 0
    /\ rl_last = NoLimiterCall
    /\ rl_admitted = <<>>

\* one forward call, for every configured retry count and delay
Init ==
    /\ InitCall
    /\ environ = <<>>
    /\ redis_url = TRUE
    /\ rate_limit_requests = MaxLimit + 1
    /\ rate_limit_period = MaxPeriod + 1
    /\ max_retries \in 0..MaxRetriesBound
    /\ retry_delay \in 1..MaxDelay
    /\ n_in = EmptyDict
    /\ n_status = 0
    /\ n_out = NoEnvelope

Next ==
    \/ \E c \in Categories, k \in EndpointKeys, m \in Methods, p \in Payloads, pp \in PathParams :
          Forward(c, k, m, p, NoneHeaders, pp)
    \/ \E t \in TimeoutTexts : AttemptTimesOut(t)
    \/ \E t \in ConnectTexts : AttemptConnectFails(t)
    \/ \E t \in OtherTexts : AttemptRaisesOther(t)
    \/ \E st \in Statuses, b \in Bodies : AttemptResponds(st, b)
    \/ WakeUp
    \/ Tick

Spec == Init /\ [][Next]_vars

\* the same with a forwarder that makes at least one attempt
InitRetrying == Init /\ max_retries >= 1

SpecRetrying == InitRetrying /\ [][Next]_vars

\* normalize_response applied to every raw payload and status of the bounds
InitNorm ==
    /\ InitCall
    /\ environ = <<>>
    /\ redis_url = TRUE
    /\ rate_limit_requests = MaxLimit + 1
    /\ rate_limit_period = MaxPeriod + 1
    /\ max_retries = DefaultMaxRetries
    /\ retry_delay = DefaultRetryDelay
    /\ n_in \in RawPayloads
    /\ n_status \in NormStatuses
    /\ n_out = NoEnvelope

NextNorm == Normalize

SpecNorm == InitNorm /\ [][NextNorm]_vars

\* path_params dicts over the keys id and x, in both insertion orders, whose values
\* may hold the text of a placeholder
ParamValues == {<<"7">>, <<"{x}">>, <<"{id}">>}
PathParamDicts ==
    {<<>>}
      \cup {<<[key |-> k, value |-> v]>> : k \in {"id", "x"}, v \in ParamValues}
      \cup {<<[key |-> "id", value |-> v], [key |-> "x", value |-> w]>> :
                v \in ParamValues, w \in ParamValues}
      \cup {<<[key |-> "x", value |-> w], [key |-> "id", value |-> v]>> :
                v \in ParamValues, w \in ParamValues}

\* resolution of every template under every path_params dict
NextSubst ==
    \/ \E c \in Categories, k \in {"fetch", "pair"}, pp \in PathParamDicts :
          Forward(c, k, "GET", NonePayload, NoneHeaders, pp)
    \/ \E st \in {200} : AttemptResponds(st, ObjBody(EmptyDict))

SpecSubst == InitRetrying /\ [][NextSubst]_vars

\* the names of the fields nested inside a JSON value
NestedNames(j) == IF j = JObj("{cvv:123}") THEN {"cvv"} ELSE {}

\* payloads with a sensitive field at the top level and inside a nested object
WirePayloads ==
    Payloads \cup {SomePayload([k \in PayloadKeys |-> IF k = "card" THEN JObj("{cvv:123}")
                                                     ELSE Absent])}

\* forward calls with and without caller headers and payloads
CallerHeaders ==
    {NoneHeaders,
     SomeHeaders(<<>>),
     SomeHeaders("Authorization" :> "tok"),
     SomeHeaders("X-Request-ID" :> "caller-id"),
     SomeHeaders(("Content-Type" :> "text/xml") @@ ("Authorization" :> "tok"))}

NextHeaders ==
    \/ \E c \in Categories, m \in Methods, p \in WirePayloads, h \in CallerHeaders :
          Forward(c, "fetch", m, p, h, <<>>)
    \/ \E t \in TimeoutTexts : AttemptTimesOut(t)
    \/ \E t \in ConnectTexts : AttemptConnectFails(t)
    \/ \E t \in OtherTexts : AttemptRaisesOther(t)
    \/ \E st \in {200, 500}, b \in {ObjBody(EmptyDict), JsonBody(JNull)} : AttemptResponds(st, b)
    \/ WakeUp
    \/ Tick

SpecHeaders == Init /\ [][NextHeaders]_vars

\* cache operations of two callers and close_redis, with and without a store URL
InitCache ==
    /\ InitCall
    /\ environ = <<>>
    /\ redis_url \in BOOLEAN
    /\ rate_limit_requests = MaxLimit + 1
    /\ rate_limit_period = MaxPeriod + 1
    /\ max_retries = DefaultMaxRetries
    /\ retry_delay = DefaultRetryDelay
    /\ n_in = EmptyDict
    /\ n_status = 0
    /\ n_out = NoEnvelope

NextCache ==
    \/ \E c \in Callers, name \in CacheOps : CacheCall(c, name)
    \/ \E c \in Callers, ok \in BOOLEAN : PingDone(c, ok)
    \/ \E c \in Callers, a \in {"absent", "json", "garbage", "1", "0", "ok"} : StoreAnswer(c, a)
    \/ \E c \in Callers, x \in StoreExceptions : StoreRaises(c, x)
    \/ \E c \in Callers : CacheReturn(c)
    \/ CloseRedis
    \/ ClientClosed
    \/ PoolDisconnected

SpecCache == InitCache /\ [][NextCache]_vars

\* one forward call whose attempts end and whose backoff sleeps return
NextFair ==
    \/ \E c \in Categories, k \in EndpointKeys, m \in {"GET", "PATCH"} :
          Forward(c, k, m, NonePayload, NoneHeaders, <<>>)
    \/ \E t \in TimeoutTexts : AttemptTimesOut(t)
    \/ \E t \in ConnectTexts : AttemptConnectFails(t)
    \/ \E t \in OtherTexts : AttemptRaisesOther(t)
    \/ \E st \in {200}, b \in {ObjBody(EmptyDict), JsonBody(JNull)} : AttemptResponds(st, b)
    \/ WakeUp
    \/ Tick

\* an attempt in flight ends: with a response, a timeout or another exception
AttemptEnds ==
    \/ \E t \in TimeoutTexts : AttemptTimesOut(t)
    \/ \E t \in ConnectTexts : AttemptConnectFails(t)
    \/ \E t \in OtherTexts : AttemptRaisesOther(t)
    \/ \E st \in {200}, b \in {ObjBody(EmptyDict), JsonBody(JNull)} : AttemptResponds(st, b)

SpecFair == Init /\ [][NextFair]_vars /\ WF_vars(AttemptEnds) /\ WF_vars(WakeUp)

\* a route: one forward call, whose result is then normalized
NextRoute ==
    \/ \E c \in Categories, k \in EndpointKeys, m \in Methods :
          Forward(c, k, m, NonePayload, NoneHeaders, <<>>)
    \/ \E t \in TimeoutTexts : AttemptTimesOut(t)
    \/ \E t \in ConnectTexts : AttemptConnectFails(t)
    \/ \E t \in OtherTexts : AttemptRaisesOther(t)
    \/ \E st \in Statuses, b \in Bodies : AttemptResponds(st, b)
    \/ WakeUp
    \/ Tick
    \/ NormalizeResult

SpecRoute == Init /\ [][NextRoute]_vars

\* a limiter that every caller uses with one limit >= 1 and one period, the settings'
InitFixed ==
    /\ InitCall
    /\ environ = <<>>
    /\ redis_url = TRUE
    /\ rate_limit_requests \in 1..MaxLimit
    /\ rate_limit_period \in 1..MaxPeriod
    /\ max_retries = DefaultMaxRetries
    /\ retry_delay = DefaultRetryDelay
    /\ n_in = EmptyDict
    /\ n_status = 0
    /\ n_out = NoEnvelope

NextFixed ==
    \/ \E c \in Clients : IsAllowed(c, NoneArg, NoneArg)
    \/ \E c \in Clients : IsAllowed(c, Arg(rate_limit_requests), Arg(rate_limit_period))
    \/ \E c \in Clients : CheckRateLimit(c, rate_limit_requests)
    \/ RlTick

SpecFixed == InitFixed /\ [][NextFixed]_vars

\* one pay_bill or recharge call and the outcomes of its attempts
NextService ==
    \/ \E name \in ServiceCalls, t \in RandomParts, r \in RandomParts : ServiceCall(name, t, r)
    \/ \E a \in ServiceAnswers : ServiceAttempt(a)
    \/ ServiceLoopEnds

SpecService == Init /\ [][NextService]_vars

\* forward calls one after the other
NextCalls ==
    \/ \E c \in Categories, m \in {"GET", "PATCH"} :
          Forward(c, "fetch", m, NonePayload, NoneHeaders, <<>>)
    \/ \E t \in ConnectTexts : AttemptConnectFails(t)
    \/ \E st \in {200} : AttemptResponds(st, ObjBody(EmptyDict))
    \/ WakeUp
    \/ Tick
    \/ Return

SpecCalls == Init /\ [][NextCalls]_vars

\* forward calls while the file is edited and the configuration reloaded
FileContents == {YamlFile(YamlMapping), YamlFile(YamlMappingV2), YamlFile(<<>>), Malformed}

NextReload ==
    \/ \E c \in Categories, k \in EndpointKeys, pp \in PathParams :
          Forward(c, k, "GET", NonePayload, NoneHeaders, pp)
    \/ \E t \in ConnectTexts : AttemptConnectFails(t)
    \/ \E st \in {200} : AttemptResponds(st, ObjBody(EmptyDict))
    \/ WakeUp
    \/ Tick
    \/ Reload
    \/ \E f \in FileContents : EditFile(f)

SpecReload == InitRetrying /\ [][NextReload]_vars

\* forward calls under the environments of Environs
Environs ==
    {<<>>,
     "BBPS_X_BASE_URL" :> <<"https://ox">>,
     "BBPS_BILLERS_BASE_URL" :> <<"https://ob">>,
     "BBPS_BILLERS_BASE_URL" :> <<>>}

InitOverride ==
    /\ InitCall
    /\ environ \in Environs
    /\ redis_url = TRUE
    /\ rate_limit_requests = MaxLimit + 1
    /\ rate_limit_period = MaxPeriod + 1
    /\ max_retries = DefaultMaxRetries
    /\ retry_delay = DefaultRetryDelay
    /\ n_in = EmptyDict
    /\ n_status = 0
    /\ n_out = NoEnvelope

SpecOverride == InitOverride /\ [][Next]_vars

\* the rate limiter called for every client, limit and period of the bounds
InitLimiter == Init /\ max_retries = DefaultMaxRetries /\ retry_delay = DefaultRetryDelay

NextLimiter ==
    \/ \E c \in Clients, l \in LimitArgs, p \in PeriodArgs : IsAllowed(c, l, p)
    \/ \E c \in Clients, l \in 0..MaxLimit : CheckRateLimit(c, l)
    \/ RlTick

SpecLimiter == InitLimiter /\ [][NextLimiter]_vars

(***************************************************************************)
(* Properties of the forwarder and the normalizer.                         *)
(***************************************************************************)
Started == pc # "idle"
Done == pc = "done"
ErrorCode == result.payload["error_code"]
\* the endpoint template configured for the call's (category, endpoint_key)
TemplateOf(r) == UrlsGet(get_category_urls(r.category), r.endpoint_key)
ErrorEntries == SelectSeq(calllog, LAMBDA e : e.type = "ERROR")
TransportErrors == {"TimeoutException", "ConnectError"}
\* every attempt made so far failed with a timeout or a connection error
EveryAttemptFailedInTransport ==
    /\ Len(attempt_starts) >= 1
    /\ Len(ErrorEntries) = Len(attempt_starts)
    /\ \A i \in DOMAIN ErrorEntries : ErrorEntries[i].error_type \in TransportErrors

\* C1: a call whose category has no base URL and whose endpoint key has no template
\* returns 500 with success false and error_code CONFIG_ERROR, makes no network
\* attempt, sleeps no backoff, and emits no log entry (no request id is generated).
C1_ConfigMiss ==
    (Started /\ get_category_base_url(req.category) = <<>> /\ TemplateOf(req) = <<>>)
        => /\ Done
           /\ result.status = 500
           /\ result.payload["success"] = JFalse
           /\ ErrorCode = JStr("CONFIG_ERROR")
           /\ netcalls = 0
           /\ attempt_starts = <<>>
           /\ sleeps = <<>>
           /\ calllog = <<>>
           /\ request_id = ""

C1_Witness ==
    /\ Done
    /\ req.category = "x"
    /\ req.endpoint_key = "y"
    /\ result.status = 500
    /\ calllog = <<>>

\* C2: with max_retries = N >= 1 and retry_delay = d, a call whose every attempt fails
\* with a timeout or a connection error makes exactly N network attempts, sleeps
\* d * 2^k after failed attempt k for k = 0..N-2 and not after the last one (so attempt
\* k starts no earlier than d * (2^k - 1) after the loop began), and returns 503 with
\* error_code CONNECTION_ERROR.
C2_RetryAndBackoff ==
    /\ \A i \in DOMAIN sleeps : sleeps[i] = retry_delay * (2 ^ (i - 1))
    /\ \A i \in DOMAIN attempt_starts :
           attempt_starts[i] >= start_time + retry_delay * ((2 ^ (i - 1)) - 1)
    /\ (Done /\ max_retries >= 1 /\ EveryAttemptFailedInTransport)
           => /\ Len(attempt_starts) = max_retries
              /\ netcalls = max_retries
              /\ Len(sleeps) = max_retries - 1
              /\ result.status = 503
              /\ ErrorCode = JStr("CONNECTION_ERROR")

C2_Witness ==
    /\ Done
    /\ max_retries = 3
    /\ retry_delay = 1
    /\ EveryAttemptFailedInTransport
    /\ attempt_starts = <<0, 1, 3>>
    /\ sleeps = <<1, 2>>
    /\ result.status = 503

\* C3: when an attempt completes an HTTP exchange with any status code, the call
\* returns at that attempt with the backend's status, and no attempt or backoff sleep
\* follows (a backend that always answers 500 is contacted once).
C3_ExchangeEndsTheCall ==
    exchange.done
        => /\ Done
           /\ result.status = exchange.status
           /\ Len(sleeps) = Len(attempt_starts) - 1
           /\ netcalls = Len(attempt_starts)

\* the loop ended and no attempt returned a result
LoopFellThrough ==
    /\ Done
    /\ ~IsConfigMiss(target_url)
    /\ ~(exchange.done /\ ParsedIsDict(exchange.body))
    /\ ~(max_retries >= 1 /\ ~IsSupportedMethod(req.method))

\* C4: when the attempt loop ends without any attempt having returned, forward returns
\* 503 with success false, message "Failed to connect to BBPS backend", error_code
\* CONNECTION_ERROR, details the text of the last error, this call's request id and a
\* timestamp, and the last log entry is a response entry that carries the error.
C4_ConnectionErrorResult ==
    LoopFellThrough
        => /\ result.status = 503
           /\ DictKeys(result.payload) = {"success", "message", "error_code", "details",
                                          "request_id", "timestamp"}
           /\ result.payload["success"] = JFalse
           /\ result.payload["message"] = JStr("Failed to connect to BBPS backend")
           /\ ErrorCode = JStr("CONNECTION_ERROR")
           /\ last_error # NoError => result.payload["details"] = JStr(last_error.text)
           /\ result.payload["request_id"] = JStr(request_id)
           /\ result.payload["timestamp"].t = "str"
           /\ calllog # <<>>
           /\ LET last == calllog[Len(calllog)]
              IN  /\ last.type = "RESPONSE"
                  /\ last.request_id = request_id
                  /\ last.status_code = 503
                  /\ last.error.t = "str"
                  /\ last_error # NoError => last.error = JStr(last_error.text)

\* C5 as amended: for every max_retries >= 1, a call whose target resolves and whose
\* method is none of GET, POST, PUT, DELETE (in any letter case) returns 400 with
\* error_code INVALID_METHOD, with no network attempt and no retry.
C5_InvalidMethod ==
    (Started /\ ~IsConfigMiss(target_url) /\ Upper(req.method) \notin Verbs /\ max_retries >= 1)
        => /\ Done
           /\ result.status = 400
           /\ ErrorCode = JStr("INVALID_METHOD")
           /\ netcalls = 0
           /\ attempt_starts = <<>>
           /\ sleeps = <<>>

C5_Witness ==
    /\ Done
    /\ req.method = "PATCH"
    /\ ~IsConfigMiss(target_url)
    /\ max_retries >= 1
    /\ result.status = 400

\* C5 as stated: the same for every configured value of max_retries.
C5_InvalidMethodAnyRetries ==
    (Started /\ ~IsConfigMiss(target_url) /\ Upper(req.method) \notin Verbs)
        => /\ Done
           /\ result.status = 400
           /\ ErrorCode = JStr("INVALID_METHOD")
           /\ netcalls = 0
           /\ attempt_starts = <<>>
           /\ sleeps = <<>>

\* C6: every forward call returns a (payload, status) pair whatever happened, and for
\* every failing class (config miss, unsupported method, transport failure, backend
\* error status) the envelope normalize_response builds from it has success false.
C6_AlwaysAnEnvelope ==
    Done
        => /\ result.status # 0
           /\ ~StatusOk(result.status)
                 => LET envelope == normalize_response(result.payload, result.status, clock)
                    IN  ~envelope.raised /\ envelope.success = FALSE

\* C7: normalize_response never fails: for every raw payload and status it returns an
\* envelope whose success is a boolean, whose message is a non-empty string and whose
\* timestamp is populated.
C7_NormalizeNeverFails ==
    n_out.called
        => /\ ~n_out.raised
           /\ n_out.success \in BOOLEAN
           /\ n_out.message.t = "str"
           /\ n_out.message.v # ""
           /\ n_out.timestamp.t = "str"

\* C8: for every completed HTTP exchange the returned payload has success true iff the
\* HTTP status is in [200, 300), whatever the body carried, and it carries this call's
\* request id and a fresh timestamp.
C8_SuccessFollowsStatus ==
    exchange.done
        => /\ Done
           /\ result.payload["success"] = JBool(StatusOk(exchange.status))
           /\ result.payload["request_id"] = JStr(request_id)
           /\ result.payload["timestamp"] = JStr(Iso(clock))

\* C9: for every completed HTTP exchange and every kind of body (a JSON object, JSON
\* that is not an object, text that is not JSON) forward returns the backend's status
\* with an object payload, the raw text wrapped as raw_response when the body does not
\* parse, and never reports CONNECTION_ERROR / 503 for it.
C9_AnyBodyIsTransportSuccess ==
    exchange.done
        => /\ Done
           /\ result.status = exchange.status
           /\ ErrorCode # JStr("CONNECTION_ERROR")
           /\ exchange.body.kind = "text"
                 => result.payload["raw_response"] = JStr(exchange.body.text)

\* C10: a (category, endpoint_key) with a base URL but no endpoint template, or with an
\* endpoint template but no base URL, makes forward return 500 with error_code
\* CONFIG_ERROR and no network attempt.
C10_PartialConfigIsConfigError ==
    (Started /\ ((get_category_base_url(req.category) = <<>>) # (TemplateOf(req) = <<>>)))
        => /\ Done
           /\ result.status = 500
           /\ ErrorCode = JStr("CONFIG_ERROR")
           /\ netcalls = 0
           /\ attempt_starts = <<>>


\* the envelope's data the spec's rule gives for a raw payload
DataByRule(raw) ==
    IF Has(raw, "data") THEN DataOf(raw["data"])
    ELSE LET rest == DictKeys(raw) \ ReservedKeys
         IN  IF rest = {} THEN NoData
             ELSE DataDict([k \in Keys |-> IF k \in rest THEN raw[k] ELSE Absent])

\* the envelope's errors the spec's rule gives for a raw payload whose success is false
ErrorsByRule(raw, status_code) ==
    IF Has(raw, "errors") /\ raw["errors"].t = "list" /\ raw["errors"].v # "[]"
      THEN RawErrors(raw["errors"])
    ELSE IF Truthy(raw["error_code"])
      THEN SynthErrors(raw["error_code"],
                       IF Truthy(raw["details"]) THEN raw["details"]
                       ELSE Get(raw, "message", JStr("An error occurred")))
    ELSE IF Truthy(raw["message"]) THEN SynthErrors(JStr("ERROR"), raw["message"])
    ELSE SynthErrors(JStr("UNKNOWN_ERROR"),
                     JStr("Request failed with status code " \o ToString(status_code)))

\* C11: for every raw payload and status, the envelope's success is the payload's
\* success value when the payload has a success key, and (200 <= status < 300)
\* otherwise.
C11_SuccessFromPayloadOrStatus ==
    n_out.called
        => /\ ~n_out.raised
           /\ Has(n_in, "success") => JBool(n_out.success) = n_in["success"]
           /\ ~Has(n_in, "success") => n_out.success = StatusOk(n_status)

\* C12: the envelope's message is the raw payload's message when that is non-empty;
\* otherwise "Request processed successfully" when success is true, else "Failed to
\* connect to BBPS backend" for error_code CONNECTION_ERROR, else "Configuration
\* error" for error_code CONFIG_ERROR, else "Request failed".
C12_MessageRule ==
    n_out.called
        => /\ ~n_out.raised
           /\ n_out.message =
                  IF Truthy(n_in["message"]) THEN n_in["message"]
                  ELSE IF n_out.success THEN JStr("Request processed successfully")
                  ELSE IF n_in["error_code"] = JStr("CONNECTION_ERROR")
                         THEN JStr("Failed to connect to BBPS backend")
                  ELSE IF n_in["error_code"] = JStr("CONFIG_ERROR")
                         THEN JStr("Configuration error")
                  ELSE JStr("Request failed")

\* C13: the envelope's data is the value under the raw payload's data key whenever the
\* key is present (unmodified, null included, whatever the other keys hold); without
\* the key it is the object of the payload's keys that are not reserved, or null when
\* none remains.
C13_DataRule ==
    n_out.called
        => /\ ~n_out.raised
           /\ n_out.data = DataByRule(n_in)

\* C14: when success is false, a non-empty raw errors list is passed through
\* unchanged; otherwise exactly one error is synthesized: {error_code, details or else
\* message} when error_code is present, else {"ERROR", message} when message is
\* present, else {"UNKNOWN_ERROR", "Request failed with status code <status>"}.  A
\* backend answering 500 with body {"message": "boom"} yields success false, message
\* "boom" and errors [{"ERROR", "boom"}].
C14_ErrorsRule ==
    /\ n_out.called
          => /\ ~n_out.raised
             /\ ~n_out.success => n_out.errors = ErrorsByRule(n_in, n_status)
    /\ LET raw == ResponseData(ObjBody([EmptyDict EXCEPT !["message"] = JStr("boom")]),
                               500, "rid", 0)
           envelope == normalize_response(raw, 500, 0)
       IN  /\ ~envelope.raised
           /\ envelope.success = FALSE
           /\ envelope.message = JStr("boom")
           /\ envelope.errors = SynthErrors(JStr("ERROR"), JStr("boom"))


\* the timestamps of a list whose age at "now" is below a period given in seconds
WithinPeriod(list, now, period) ==
    SelectSeq(list, LAMBDA ts : now - ts < period * TicksPerSecond)

\* C15: on every is_allowed(client_id, limit, period) call, for every limit and period
\* the caller passes (0 included), the client's timestamps older than period seconds
\* are dropped first; the call is rejected iff the number of remaining timestamps is
\* >= the limit passed, and otherwise it is admitted and "now" is appended to the
\* client's list.
C15_AdmitIffUnderLimit ==
    (rl_last.called /\ rl_last.limit_arg.given /\ rl_last.period_arg.given)
        => LET kept == WithinPeriod(rl_last.before, rl_last.now, rl_last.period_arg.v)
           IN  /\ rl_last.allowed <=> ~(Len(kept) >= rl_last.limit_arg.v)
               /\ rl_last.after = IF rl_last.allowed THEN Append(kept, rl_last.now) ELSE kept
               /\ RequestsOf(RateKey(rl_last.client_id)) = rl_last.after

\* C16: every rejection reports retry_after = period - (now - oldest remaining
\* timestamp), in whole seconds, and that value is strictly greater than 0 and at
\* most period; every admission reports 0 (so limit 2 with three calls of one client
\* within a second gives admit, admit, reject with retry_after > 0).
C16_RetryAfter ==
    rl_last.called
        => IF rl_last.allowed THEN rl_last.retry_after = 0
           ELSE LET left == rl_last.period * TicksPerSecond - (rl_last.now - rl_last.after[1])
                IN  /\ rl_last.retry_after * TicksPerSecond <= left
                    /\ left < (rl_last.retry_after + 1) * TicksPerSecond
                    /\ rl_last.retry_after > 0
                    /\ rl_last.retry_after <= rl_last.period

\* C17: no inbound request reaches the forwarder unless is_allowed was called for the
\* request's client beforehand and admitted it.
C17_LimiterBeforeForward ==
    Started => rl_last.called /\ rl_last.allowed


\* the URL a complete mapping M gives to the call r: base URL and template both from M
UrlUnder(M, r) ==
    LET urls == IF r.category \in DOMAIN M THEN M[r.category] ELSE <<>>
        env_url == UrlsGet(environ, "BBPS_" \o Upper(r.category) \o "_BASE_URL")
        base_url == IF env_url # <<>> THEN env_url ELSE UrlsGet(urls, "base_url")
    IN  base_url \o Substitute(UrlsGet(urls, r.endpoint_key), r.path_params)

C19_ResolveSeesOneMapping ==
    Started
        => /\ raised = "" => target_url = UrlUnder(resolved_with.urls, req)
           /\ resolved_with.n > 0
                 => /\ raised = ""
                    /\ reloads[resolved_with.n].status = 200
                          => resolved_with.urls = reloads[resolved_with.n].urls


\* the override os.environ holds for a category ("" when unset)
OverrideOf(category) ==
    LET key == "BBPS_" \o Upper(category) \o "_BASE_URL"
    IN  IF key \in DOMAIN environ THEN environ[key] ELSE <<>>

\* C20: for every category, a non-empty environment override
\* BBPS_<CATEGORY upper-cased>_BASE_URL is the base URL of the resolved URL in place of
\* the configured base_url, which is used only when no override is set; an override
\* alone, for a category the mapping does not hold, still yields a resolved URL.
C20_OverrideWins ==
    Started
        => LET template == Substitute(TemplateOf(req), req.path_params)
               configured == UrlsGet(get_category_urls(req.category), "base_url")
           IN  /\ OverrideOf(req.category) # <<>>
                     => target_url = OverrideOf(req.category) \o template
               /\ OverrideOf(req.category) = <<>> => target_url = configured \o template
               /\ (OverrideOf(req.category) # <<>> /\ req.category \notin DOMAIN bbps_config)
                     => /\ target_url = OverrideOf(req.category)
                        /\ request_id # ""
                        /\ ErrorCode # JStr("CONFIG_ERROR")

C20_Witness ==
    /\ Done
    /\ req.category = "billers"
    /\ req.endpoint_key = "fetch"
    /\ UrlsGet(get_category_urls("billers"), "base_url") = <<"https://b">>
    /\ OverrideOf("billers") = <<"https://ob">>
    /\ attempt_urls # <<>>
    /\ attempt_urls[1] = <<"https://ob", "/fetch/", "7">>


\* the value a path_params dict supplies for a placeholder token, or the token itself
RECURSIVE Supplied(_, _)
Supplied(tok, path_params) ==
    IF path_params = <<>> THEN <<tok>>
    ELSE IF tok = "{" \o Head(path_params).key \o "}" THEN Head(path_params).value
    ELSE Supplied(tok, Tail(path_params))

\* every token of a template replaced by the supplied value, verbatim
RECURSIVE Verbatim(_, _)
Verbatim(template, path_params) ==
    IF template = <<>> THEN <<>>
    ELSE Supplied(Head(template), path_params) \o Verbatim(Tail(template), path_params)

\* C21: resolution replaces every {name} token of the endpoint template by the value
\* the caller supplies for name, verbatim, for every template and path_params (values
\* that hold the text {other} of another supplied parameter included, so the result
\* does not depend on the parameters' order); tokens with no supplied value stay as
\* literal text and cause no error.
C21_VerbatimSubstitution ==
    Started
        => /\ raised = ""
           /\ target_url = get_category_base_url(req.category)
                             \o Verbatim(TemplateOf(req), req.path_params)

\* the request id of the call's request log entry
LoggedRequestId == SelectSeq(calllog, LAMBDA e : e.type = "REQUEST")[1].request_id
DefaultKeys == {"Content-Type", "Accept", "X-Request-ID", "X-BBPS-Category", "X-Timestamp"}

\* C22: every attempt carries the five default headers (JSON content type and accept, the
\* call's request id, the category, a timestamp), except that a key the caller supplies
\* carries the caller's value; the caller's other keys are added and nothing else is sent.
C22_OutboundHeaders ==
    \A i \in 1..Len(attempts_sent) :
        LET h == attempts_sent[i].headers
            c == req.headers.d
        IN  /\ DOMAIN h = DefaultKeys \cup DOMAIN c
            /\ \A k \in DOMAIN c : h[k] = c[k]
            /\ \A k \in DefaultKeys \ DOMAIN c :
                  h[k] = CASE k = "X-Request-ID" -> LoggedRequestId
                           [] k = "X-BBPS-Category" -> req.category
                           [] k = "X-Timestamp" -> Iso(attempt_starts[1])
                           [] OTHER -> "application/json"

\* a call that sent two attempts with a colliding and a non-colliding caller header
C22_Witness ==
    /\ Done
    /\ Len(attempts_sent) >= 2
    /\ DOMAIN req.headers.d = {"Content-Type", "Authorization"}
    /\ attempts_sent[2].headers["Content-Type"] = "text/xml"
    /\ attempts_sent[2].headers["Accept"] = "application/json"
\* the names of all fields of a logged payload, nested ones included
LoggedNames(p) ==
    IF p.present
      THEN {k \in PayloadKeys : p.data[k].t # "absent"}
             \cup UNION {NestedNames(p.data[k]) : k \in PayloadKeys}
      ELSE {}

\* C23: the request log entry holds no field named password, pin, otp or cvv in any
\* letter case, and every attempt that sends a body sends the caller's payload unchanged.
C23_RedactedLogUnchangedWire ==
    /\ \A i \in 1..Len(calllog) :
          calllog[i].type = "REQUEST"
              => \A n \in LoggedNames(calllog[i].payload) : Lower(n) \notin SensitiveFields
    /\ \A i \in 1..Len(attempts_sent) :
          attempts_sent[i].json.sent => attempts_sent[i].json.payload = req.payload
\* the call returned the payload of a completed exchange or of a connection failure
ReturnedExchangeOrFailure ==
    Done /\ ((exchange.done /\ ParsedIsDict(exchange.body)) \/ LoopFellThrough)

\* the request id is generated once and is the id of every log entry of the call and of
\* the payload returned for a completed exchange or a connection failure
OneIdInLogsAndPayload ==
    /\ issued_ids = <<request_id>>
    /\ \A i \in 1..Len(calllog) :
          calllog[i].type \in {"REQUEST", "ERROR", "RESPONSE"}
              => calllog[i].request_id = request_id
    /\ ReturnedExchangeOrFailure => result.payload["request_id"] = JStr(request_id)

\* C24 as amended: within one forward call the request id is generated exactly once; it
\* is the id of the request log entry, of every error log entry, of the response log
\* entry and of the payload returned for a completed exchange or a connection failure,
\* and it is the X-Request-ID header of every attempt unless the caller supplied an
\* X-Request-ID header of its own, which is then sent instead.
C24_OneRequestId ==
    request_id # ""
        => /\ OneIdInLogsAndPayload
           /\ \A i \in 1..Len(attempts_sent) :
                 attempts_sent[i].headers["X-Request-ID"]
                   = IF "X-Request-ID" \in DOMAIN req.headers.d
                       THEN req.headers.d["X-Request-ID"]
                       ELSE request_id

\* a call that failed once, retried and completed an exchange under its own request id
C24_Witness ==
    /\ Done
    /\ exchange.done
    /\ Len(attempts_sent) >= 2
    /\ Len(ErrorEntries) >= 1
    /\ "X-Request-ID" \notin DOMAIN req.headers.d
    /\ attempts_sent[2].headers["X-Request-ID"] = request_id
    /\ result.payload["request_id"] = JStr(request_id)

\* C24 as stated: the generated id is the X-Request-ID header of every attempt, whatever
\* headers the caller supplied
C24_RequestIdEverywhere ==
    request_id # ""
        => /\ OneIdInLogsAndPayload
           /\ \A i \in 1..Len(attempts_sent) :
                 attempts_sent[i].headers["X-Request-ID"] = request_id
\* C25: no two forward calls receive the same request id, whatever their categories and
\* however close in time they start.
C25_RequestIdsUnique ==
    \A i, j \in 1..Len(issued_ids) : i # j => issued_ids[i] # issued_ids[j]
\* C26: no cache operation raises, and an operation that found the store URL unset, got
\* no client, or whose ping or store call failed returns its miss value: null for get and
\* incr, false for set, delete and expire.
C26_CacheNeverRaises ==
    \A c \in Callers :
        /\ ops[c].stage # "raised"
        /\ (ops[c].stage = "returned" /\ (~redis_url \/ ops[c].no_client \/ ops[c].failed))
              => ops[c].result = Miss(ops[c].name)

\* after close_redis, an operation on a fresh client failed in the store and returned
\* its miss value
C26_Witness ==
    /\ closer = "closed"
    /\ \E c \in Callers :
          /\ ops[c].stage = "returned"
          /\ ops[c].name = "get"
          /\ ops[c].client >= 2
          /\ ops[c].failed
          /\ ~ops[c].no_client
          /\ ops[c].result = JNull

\* caller c starts an operation in this step
Starts(c) == ops[c].stage = "idle" /\ ops'[c].stage # "idle"

OtherExceptionRaised == last_error # NoError /\ last_error.type \notin TransportErrors

\* C28: once an attempt has raised an exception other than a timeout or a connect error,
\* the call is over: that attempt is the last one, no backoff follows it although attempts
\* may remain, and the result is 503 with error_code CONNECTION_ERROR and the exception's
\* text as details.
C28_OtherExceptionBreaks ==
    OtherExceptionRaised
        => /\ Done
           /\ Len(attempt_starts) = attempt + 1
           /\ Len(sleeps) = attempt
           /\ result.status = 503
           /\ ErrorCode = JStr("CONNECTION_ERROR")
           /\ result.payload["details"] = JStr(last_error.text)

\* the second of three attempts raised a read error and the call ended there
C28_Witness ==
    /\ Done
    /\ max_retries = 3
    /\ attempt = 1
    /\ last_error.type = "ReadError"
    /\ Len(attempt_starts) = 2
    /\ Len(sleeps) = 1
    /\ result.status = 503
\* the attempts that have ended: each failed one logged an error, a completed one returned
AttemptsEnded ==
    Len(ErrorEntries) + (IF exchange.done /\ ParsedIsDict(exchange.body) THEN 1 ELSE 0)

\* at most max_retries attempts, one in flight at a time, each later one started after
\* the one before it failed and its backoff sleep was over
SequentialAttempts ==
    /\ Len(attempt_starts) <= max_retries
    /\ Len(attempt_starts) - AttemptsEnded = (IF pc = "inflight" THEN 1 ELSE 0)
    /\ \A i \in 2..Len(attempt_starts) :
          /\ Len(sleeps) >= i - 1
          /\ Len(ErrorEntries) >= i - 1
          /\ attempt_starts[i] >= attempt_starts[i - 1] + sleeps[i - 1]

\* C29: every forward call that has started returns, given that attempts end and sleeps
\* return; it makes at most max_retries attempts, one after the other, and none after it
\* has returned.
C29_Terminates ==
    /\ []SequentialAttempts
    /\ [][pc = "done" => pc' = "done" /\ attempt_starts' = attempt_starts]_vars
    /\ (Started ~> Done)

\* a call that used all of its three attempts and returned
C29_Witness ==
    /\ Done
    /\ max_retries = 3
    /\ Len(attempt_starts) = 3
    /\ Len(sleeps) = 2
    /\ Len(ErrorEntries) = 3
ResponseEntries == SelectSeq(calllog, LAMBDA e : e.type = "RESPONSE")

\* C30: a call that emitted a request log entry has, when it returns, emitted exactly one
\* response log entry, which carries the status it returns, and one error log entry per
\* failed attempt; the registry mapping, the rate limiter's windows and the cache
\* connection are as they were.
C30_OneResponseEntry ==
    (Done /\ request_id # "")
        => /\ Len(ResponseEntries) = 1
           /\ ResponseEntries[1].status_code = result.status
           /\ Len(ErrorEntries) + (IF exchange.done /\ ParsedIsDict(exchange.body) THEN 1 ELSE 0)
                 = Len(attempt_starts)
           /\ bbps_config = yaml_file.urls
           /\ rl_requests = <<>>
           /\ redis_client = 0 /\ created = 0
\* C31: whatever forward returns (config miss, unsupported method, completed exchange,
\* connection failure), the payload's success is a boolean that is true exactly when the
\* returned status is in [200, 300), and so is the success of the envelope that
\* normalize_response builds from it.
C31_SuccessIffStatusOk ==
    (Done /\ raised = "")
        => /\ result.payload["success"] = JBool(StatusOk(result.status))
           /\ (n_out.called /\ ~n_out.raised) => n_out.success = StatusOk(result.status)

\* a completed exchange with status 500 whose body said success true was normalized
C31_Witness ==
    /\ Done
    /\ exchange.done
    /\ exchange.status = 500
    /\ exchange.body.obj["success"] = JTrue
    /\ n_out.called
    /\ ~n_out.raised
    /\ ~n_out.success
\* the raw payload's success, where present, is a boolean
RawSuccessIsBool == Get(n_in, "success", JTrue).t = "bool"

\* C32: in every envelope normalize_response returns for a payload whose success is a
\* boolean (or absent), errors is null when success is true, whatever errors the payload
\* carried, and a non-empty list when success is false.
C32_ErrorsFollowSuccess ==
    (n_out.called /\ ~n_out.raised /\ RawSuccessIsBool)
        => IF n_out.success THEN n_out.errors = NoErrors
           ELSE \/ n_out.errors.kind = "synth"
                \/ n_out.errors.kind = "raw" /\ n_out.errors.raw.v # "[]"

\* a successful payload that carried an errors list was normalized to errors null
C32_Witness ==
    /\ n_out.called
    /\ ~n_out.raised
    /\ n_in["success"] = JTrue
    /\ n_in["errors"] = JList("[{code,message}]")
    /\ n_out.errors = NoErrors
\* how many of a key's admitted calls fall in the window of period seconds that starts at a
AdmittedIn(key, a, period) ==
    Cardinality({i \in DOMAIN AdmittedOf(key) :
                    a <= AdmittedOf(key)[i] /\ AdmittedOf(key)[i] < a + period * TicksPerSecond})

\* C33: with one limit >= 1 and one period, every client's stored list holds at most
\* limit timestamps in non-decreasing order, and no window of period seconds holds more
\* than limit admitted requests of one client.
C33_WindowHoldsLimit ==
    \A key \in DOMAIN rl_requests :
        LET list == rl_requests[key]
        IN  /\ Len(list) <= rate_limit_requests
            /\ \A i \in 1..Len(list) - 1 : list[i] <= list[i + 1]
            /\ \A a \in 0..MaxRlClock : AdmittedIn(key, a, rate_limit_period) <= rate_limit_requests

\* a client that filled its window, had it pruned and was admitted again
C33_Witness ==
    \E key \in DOMAIN rl_requests :
        /\ Len(rl_requests[key]) = rate_limit_requests
        /\ Len(AdmittedOf(key)) > rate_limit_requests
        /\ rl_last.called /\ rl_last.allowed /\ RateKey(rl_last.client_id) = key
        /\ Len(rl_last.before) > Len(rl_last.after) - 1
\* C34: after a rejection at time t with retry_after r, a call of the same client with
\* the same limit and period at any time from t + r seconds on is admitted.
C34_RetryAfterSuffices ==
    (rl_last.called /\ ~rl_last.allowed)
        => \A t2 \in rl_now..MaxRlClock :
              t2 >= rl_last.now + rl_last.retry_after * TicksPerSecond
                  => is_allowed(rl_last.client_id, rl_last.limit_arg, rl_last.period_arg, t2).allowed
\* C35: a rejected call leaves the client's list equal to its list pruned to the period,
\* without the rejected request, and no call changes the list of any other client.
C35_RejectionRecordsNothing ==
    /\ [](rl_last.called /\ ~rl_last.allowed
            => /\ rl_last.after = WithinPeriod(rl_last.before, rl_last.now, rl_last.period)
               /\ RequestsOf(RateKey(rl_last.client_id)) = rl_last.after)
    /\ [][\A c \in Clients :
            c # rl_last'.client_id
                => (IF RateKey(c) \in DOMAIN rl_requests' THEN rl_requests'[RateKey(c)] ELSE <<>>)
                     = RequestsOf(RateKey(c))]_vars

\* client a was rejected while client b holds timestamps of its own
C35_Witness ==
    /\ rl_last.called
    /\ ~rl_last.allowed
    /\ rl_last.client_id = "a"
    /\ rl_last.now > rl_last.before[1]
    /\ RequestsOf(RateKey("a")) = rl_last.before
    /\ RequestsOf(RateKey("b")) # <<>>
\* C36: a resolve made after a failed reload that followed a successful one does not
\* raise and uses the mapping the successful reload had put in effect.
C36_FailedReloadKeepsMapping ==
    (/\ Started
     /\ resolved_with.n >= 2
     /\ reloads[resolved_with.n].status = 500
     /\ reloads[resolved_with.n - 1].status = 200)
        => /\ raised = ""
           /\ resolved_with.urls = reloads[resolved_with.n - 1].urls
           /\ target_url = UrlUnder(reloads[resolved_with.n - 1].urls, req)
\* the envelope that normalizing the fields of the returned envelope again yields
C37_Again == normalize_response(EnvelopeFields(n_out), n_status, clock + 1)

\* C37: for every raw payload whose success is a boolean (or absent) and every status,
\* normalizing the fields of the envelope normalize_response returned once more, with the
\* same status, returns an envelope with the same success, message, data, errors,
\* request_id and timestamp.
C37_NormalizeIdempotent ==
    (n_out.called /\ ~n_out.raised /\ RawSuccessIsBool)
        => /\ ~C37_Again.raised
           /\ C37_Again.success = n_out.success
           /\ C37_Again.message = n_out.message
           /\ DataAsJson(C37_Again.data) = DataAsJson(n_out.data)
           /\ ErrorsAsJson(C37_Again.errors) = ErrorsAsJson(n_out.errors)
           /\ C37_Again.request_id = n_out.request_id
           /\ C37_Again.timestamp = n_out.timestamp

\* a failed payload without errors, message, data key or timestamp was normalized: the
\* envelope holds a synthesized error, a default message, the remaining keys as data and
\* the clock's reading
C37_Witness ==
    /\ n_out.called
    /\ ~n_out.raised
    /\ n_in["success"] = JFalse
    /\ n_out.errors.kind = "synth"
    /\ n_out.data.t = "dict"
    /\ n_out.message = JStr("Request failed")
    /\ ~Has(n_in, "timestamp")
\* every attempt of the call sent the transactionId and the X-Request-ID of the first, the
\* call made at most max_retries attempts, and the transaction_id returned is the one sent
C38_SameIdsBoundedAttempts ==
    /\ \A i \in DOMAIN svc_attempts :
          /\ svc_attempts[i].transactionId = svc_attempts[1].transactionId
          /\ svc_attempts[i].X_Request_ID = svc_attempts[1].X_Request_ID
    /\ Len(svc_attempts) <= max_retries
    /\ (svc_result.returned /\ svc_attempts # <<>>)
          => svc_result.transaction_id = svc_attempts[1].transactionId

\* C38: every attempt of one pay_bill or recharge call sends the same transactionId and
\* the same X-Request-ID, the call makes at most max_retries attempts, no attempt follows
\* a 2xx response, and the transaction_id returned equals the transactionId sent, whether
\* the call succeeded or failed.
C38_OneTransactionPerCall ==
    /\ C38_SameIdsBoundedAttempts
    /\ \A i \in DOMAIN svc_attempts :
          (svc_attempts[i].answer.kind = "response" /\ Is2xx(svc_attempts[i].answer.status))
              => i = Len(svc_attempts)
\* C39: under any interleaving of cache operations, no caller holds for its store operation
\* a client that another caller is still pinging: get_redis_client hands out a client only
\* after its ping succeeded, so a client whose ping then fails is in nobody's hands.
C39_OnlyPingedClients ==
    \A a \in Callers, b \in Callers :
        ~(/\ a # b
          /\ ops[a].stage = "pinging"
          /\ ops[b].stage = "operating"
          /\ ops[b].client = ops[a].client)
================================================================
